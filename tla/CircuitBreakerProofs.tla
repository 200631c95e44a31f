------------------------ MODULE CircuitBreakerProofs ------------------------
(***************************************************************************)
(* Proofs about CircuitBreaker for any number of concurrent calls, any     *)
(* window and any waiting time: the counts stay consistent, an open        *)
(* breaker serves its whole wait, and one that closes or opens has reason  *)
(* to.  Of what evaluate computes (Trips) only the window's total is used: *)
(* it does not trip on fewer than MinCalls calls.                          *)
(*                                                                         *)
(* And about StreamPath, the upstream call the breaker guards when the     *)
(* answer is streamed, for any requests, statuses, buffer, retries and     *)
(* chunks: the answer arrives once and in order, and ends as it is charged.*)
(***************************************************************************)
EXTENDS CircuitBreaker, StreamPath, Sums, SequenceTheorems, TLAPS

\* No slice counts more failures or slow calls than calls.
WindowOK(b) ==
    /\ b \in [Indices -> Bucket]
    /\ \A i \in Indices : b[i].failures <= b[i].total /\ b[i].slow <= b[i].total

\* A half-open breaker still needs a success.
HalfOpenNeedsMore == state = "half-open" => halfOpenOK < Permits

BreakerOK == /\ state \in {"closed", "open", "half-open"}
             /\ WindowOK(buckets)
             /\ currentIdx \in Indices
             /\ openFor \in 0..Wait
             /\ halfOpenOK \in 0..Permits
             /\ HalfOpenNeedsMore

\* What is known of the calls in flight and of the environment.
CallsOK == /\ call \in [Callers -> [admitted : {"no", "closed", "half-open"},
                                    good : BOOLEAN]]
           /\ healthy \in BOOLEAN
           /\ seen \in 0..3

IInv == BreakerOK /\ CallsOK

\* An empty window is consistent, and the window has a first slice.
LEMMA EmptyWindow == WindowOK(NoBuckets) /\ 0 \in Indices
BY BreakerAssumption DEF WindowOK, NoBuckets, Bucket, Empty, Indices

\* NewCircuitBreaker.
LEMMA InitIInv == Init => IInv
<1> SUFFICES ASSUME Init PROVE BreakerOK /\ CallsOK
    BY DEF IInv
<1>1. BreakerOK
    BY EmptyWindow, BreakerAssumption
       DEF Init, BreakerOK, HalfOpenNeedsMore
<1>2. CallsOK
    <2>1. Idle \in [admitted : {"no", "closed", "half-open"}, good : BOOLEAN]
        BY DEF Idle
    <2>2. seen \in 0..3
        BY DEF Init
    <2>3. healthy \in BOOLEAN
        BY DEF Init
    <2> QED BY <2>1, <2>2, <2>3 DEF Init, CallsOK
<1> QED BY <1>1, <1>2

\* evaluate on a closed breaker opens it or leaves it with the given window.
LEMMA EvaluateClosedOK ==
    ASSUME BreakerOK, NEW b, WindowOK(b), state = "closed", EvaluateClosed(b)
    PROVE  BreakerOK' /\ state' \in {"closed", "open"}
<1>1. CASE Opened
    <2>1. WindowOK(buckets')
        BY <1>1, EmptyWindow DEF Opened
    <2> QED
        BY <1>1, <2>1, BreakerAssumption
           DEF Opened, BreakerOK, HalfOpenNeedsMore, WindowOK
<1>2. CASE ~Opened
    BY <1>2 DEF EvaluateClosed, BreakerOK, HalfOpenNeedsMore, WindowOK
<1> QED BY <1>1, <1>2

\* evaluate on an open breaker makes it half-open once the wait is over.
LEMMA EvaluateOpenOK ==
    ASSUME BreakerOK, NEW b, WindowOK(b), state = "open", EvaluateOpen(b)
    PROVE  /\ BreakerOK'
           /\ openFor' = openFor
           /\ \/ state' = "open"
              \/ state' = "half-open" /\ openFor = Wait
BY BreakerAssumption
   DEF EvaluateOpen, BreakerOK, HalfOpenNeedsMore, WindowOK

\* Counting one more outcome keeps the window consistent.
LEMMA CountedOK ==
    ASSUME BreakerOK, NEW ok \in BOOLEAN, NEW slow \in BOOLEAN
    PROVE  WindowOK(Counted(ok, slow))
<1> SUFFICES ASSUME ~Full PROVE WindowOK(Counted(ok, slow))
    BY DEF Counted, BreakerOK
<1> DEFINE b == buckets[currentIdx]
           n == [total |-> b.total + 1,
                 failures |-> b.failures + (IF ok THEN 0 ELSE 1),
                 slow |-> b.slow + (IF slow THEN 1 ELSE 0)]
<1>1. b \in Bucket /\ b.failures <= b.total /\ b.slow <= b.total
      /\ ~(b.total >= MaxTotal)
    BY DEF BreakerOK, WindowOK, Full
<1>2. n \in Bucket /\ n.failures <= n.total /\ n.slow <= n.total
    BY <1>1, BreakerAssumption DEF Bucket
<1>3. Counted(ok, slow) = [buckets EXCEPT ![currentIdx] = n]
    BY DEF Counted
<1> HIDE DEF n
<1> QED BY <1>2, <1>3 DEF WindowOK, BreakerOK

\* The step of Record on each state of the breaker.
LEMMA RecordOK ==
    ASSUME BreakerOK, NEW c \in Callers, NEW ok \in BOOLEAN, NEW slow \in BOOLEAN,
           Record(c, ok, slow)
    PROVE  /\ BreakerOK'
           /\ state = "open" => \/ state' = "open" /\ openFor' = openFor
                                \/ state' = "half-open" /\ openFor = Wait
<1>1. WindowOK(Counted(ok, slow))
    BY CountedOK DEF Record
<1>2. CASE state = "closed" /\ EvaluateClosed(Counted(ok, slow))
    BY <1>1, <1>2, EvaluateClosedOK
<1>3. CASE state = "open" /\ EvaluateOpen(Counted(ok, slow))
    BY <1>1, <1>3, EvaluateOpenOK
<1>4. CASE state = "half-open" /\ ~ok /\ Opened
    <2>1. WindowOK(buckets')
        BY <1>4, EmptyWindow DEF Opened
    <2> QED
        BY <1>4, <2>1, BreakerAssumption
           DEF Opened, BreakerOK, HalfOpenNeedsMore, WindowOK
<1>5. CASE /\ state = "half-open" /\ halfOpenOK' = halfOpenOK + 1 /\ Closed
    <2>1. WindowOK(buckets') /\ currentIdx' \in Indices
        BY <1>5, EmptyWindow DEF Closed
    <2> QED
        BY <1>5, <2>1, BreakerAssumption
           DEF Closed, BreakerOK, HalfOpenNeedsMore, WindowOK
<1>6. CASE /\ state = "half-open" /\ halfOpenOK' = halfOpenOK + 1
           /\ halfOpenOK + 1 < Permits
           /\ buckets' = Counted(ok, slow)
           /\ UNCHANGED <<state, currentIdx, openFor>>
    BY <1>1, <1>6, BreakerAssumption DEF BreakerOK, HalfOpenNeedsMore, WindowOK
<1> QED BY <1>2, <1>3, <1>4, <1>5, <1>6 DEF Record

\* The step of evaluate, as Allow and State run it.
LEMMA EvaluateOK ==
    ASSUME BreakerOK, Evaluate
    PROVE  /\ BreakerOK'
           /\ state = "open" => \/ state' = "open" /\ openFor' = openFor
                                \/ state' = "half-open" /\ openFor = Wait
<1>1. WindowOK(buckets)
    BY DEF BreakerOK
<1>2. CASE state = "half-open" /\ UNCHANGED <<state, buckets, currentIdx, openFor,
                                             halfOpenOK>>
    BY <1>2 DEF BreakerOK, HalfOpenNeedsMore, WindowOK
<1> QED BY <1>1, <1>2, EvaluateClosedOK, EvaluateOpenOK DEF Evaluate

\* Every step keeps the invariant, and an open breaker waits.
LEMMA NextIInv ==
    ASSUME IInv, [Next]_vars
    PROVE  /\ IInv'
           /\ state = "open" => \/ state' = "open" /\ openFor' >= openFor
                                \/ state' = "half-open" /\ openFor = Wait
<1>0. BreakerOK /\ CallsOK /\ openFor \in Nat
    BY BreakerAssumption DEF IInv, BreakerOK
<1>1. ASSUME NEW c \in Callers, Allow(c)
      PROVE  BreakerOK' /\ CallsOK' /\ (state = "open" =>
               \/ state' = "open" /\ openFor' = openFor
               \/ state' = "half-open" /\ openFor = Wait)
    <2>1. /\ BreakerOK'
          /\ state = "open" => \/ state' = "open" /\ openFor' = openFor
                               \/ state' = "half-open" /\ openFor = Wait
        BY <1>0, <1>1, EvaluateOK DEF Allow
    <2>2. CallsOK'
        BY <1>0, <1>1, <2>1 DEF Allow, CallsOK, BreakerOK
    <2> QED BY <2>1, <2>2
<1>2. ASSUME NEW c \in Callers, NEW ok \in BOOLEAN, NEW slow \in BOOLEAN,
             Record(c, ok, slow)
      PROVE  BreakerOK' /\ CallsOK' /\ (state = "open" =>
               \/ state' = "open" /\ openFor' = openFor
               \/ state' = "half-open" /\ openFor = Wait)
    <2>1. CallsOK'
        BY <1>0, <1>2 DEF Record, CallsOK, Idle
    <2> QED BY <1>0, <1>2, <2>1, RecordOK
<1>3. ASSUME State
      PROVE  BreakerOK' /\ CallsOK' /\ (state = "open" =>
               \/ state' = "open" /\ openFor' = openFor
               \/ state' = "half-open" /\ openFor = Wait)
    <2>1. CallsOK'
        BY <1>0, <1>3 DEF State, CallsOK
    <2> QED BY <1>0, <1>3, <2>1, EvaluateOK DEF State
<1>4. CASE AdvanceBucket
    <2>1. (currentIdx + 1) % NumBuckets \in Indices
        BY <1>0, BreakerAssumption DEF BreakerOK, Indices
    <2>2. Empty \in Bucket /\ Empty.failures <= Empty.total
          /\ Empty.slow <= Empty.total
        BY BreakerAssumption DEF Empty, Bucket
    <2>3. BreakerOK' /\ CallsOK'
        BY <1>0, <1>4, <2>1, <2>2
           DEF AdvanceBucket, BreakerOK, CallsOK, WindowOK, HalfOpenNeedsMore
    <2> QED BY <1>0, <1>4, <2>3 DEF AdvanceBucket, IInv
<1>5. CASE Tick
    <2>1. BreakerOK' /\ CallsOK'
        BY <1>0, <1>5, BreakerAssumption
           DEF Tick, BreakerOK, CallsOK, WindowOK, HalfOpenNeedsMore
    <2> QED BY <1>0, <1>5, <2>1 DEF Tick, IInv
<1>6. CASE Recover \/ UNCHANGED vars
    <2>1. BreakerOK' /\ CallsOK'
        BY <1>0, <1>6
           DEF Recover, vars, BreakerOK, CallsOK, WindowOK, HalfOpenNeedsMore
    <2> QED BY <1>0, <1>6, <2>1 DEF Recover, vars, IInv
<1> QED
    BY <1>0, <1>1, <1>2, <1>3, <1>4, <1>5, <1>6
       DEF Next, Outcome, IInv

\* The invariant holds in every reachable state.
THEOREM InvariantHolds == Spec => []IInv
<1>1. IInv /\ [Next]_vars => IInv'
    BY NextIInv
<1> QED BY <1>1, InitIInv, PTL DEF Spec

(***************************************************************************)
(* The breaker keeps its types: a half-open breaker never counts more      *)
(* successes than it needs, and no slice of the window is out of bounds.   *)
(***************************************************************************)
THEOREM TypeCorrect == Spec => []TypeOK
<1>1. IInv => TypeOK
    BY DEF IInv, BreakerOK, CallsOK, WindowOK, TypeOK
<1> QED BY <1>1, InvariantHolds, PTL

(***************************************************************************)
(* Whatever the number of late outcomes, an open breaker stays open for    *)
(* its whole WaitDurationInOpen and leaves it for half-open only.          *)
(***************************************************************************)
THEOREM OpenIsServed == Spec => OpenLastsItsWait
<1>1. IInv /\ [Next]_vars =>
        [state = "open" => \/ state' = "open" /\ openFor' >= openFor
                           \/ state' = "half-open" /\ openFor = Wait]_vars
    BY NextIInv
<1> QED BY <1>1, InvariantHolds, PTL DEF Spec, OpenLastsItsWait
-----------------------------------------------------------------------------
\* What evaluate adds up first, the outcomes in the window.
Totals(b) == [i \in Indices |-> b[i].total]
TotalOf(b) == MapThenFoldSet(LAMBDA x, y : x + y, 0, LAMBDA i : b[i].total,
                             LAMBDA S : CHOOSE x \in S : TRUE, Indices)

\* The fold of evaluate is the sum over the buckets.
LEMMA TotalIsSum ==
    ASSUME NEW b, NEW g, IsSum(g, Totals(b), Indices)
    PROVE  TotalOf(b) = g[Indices]
<1>1. IsFiniteSet(Indices)
    BY FS_Interval, BreakerAssumption DEF Indices
<1>2. AddsUp(g, Totals(b), Indices) /\ \A h : AddsUp(h, Totals(b), Indices) => h = g
    BY <1>1, AnySums
<1>3. \A T \in SUBSET Indices :
        T # {} => Totals(b)[CHOOSE x \in T : TRUE] = b[CHOOSE x \in T : TRUE].total
    BY DEF Totals
<1>4. ASSUME NEW h
      PROVE  AddsUp(h, Totals(b), Indices)
             <=> h = [T \in SUBSET Indices |-> IF T = {} THEN 0
                        ELSE b[CHOOSE x \in T : TRUE].total + h[T \ {CHOOSE x \in T : TRUE}]]
    <2>1. [T \in SUBSET Indices |-> IF T = {} THEN 0
             ELSE Totals(b)[CHOOSE x \in T : TRUE] + h[T \ {CHOOSE x \in T : TRUE}]]
          = [T \in SUBSET Indices |-> IF T = {} THEN 0
               ELSE b[CHOOSE x \in T : TRUE].total + h[T \ {CHOOSE x \in T : TRUE}]]
        BY <1>3
    <2> QED BY <2>1 DEF AddsUp
<1>5. g = [T \in SUBSET Indices |-> IF T = {} THEN 0
             ELSE b[CHOOSE x \in T : TRUE].total + g[T \ {CHOOSE x \in T : TRUE}]]
    BY <1>2, <1>4
<1>6. ASSUME NEW h, h = [T \in SUBSET Indices |-> IF T = {} THEN 0
                           ELSE b[CHOOSE x \in T : TRUE].total + h[T \ {CHOOSE x \in T : TRUE}]]
      PROVE  h = g
    BY <1>2, <1>4, <1>6
<1> QED BY <1>5, <1>6 DEF TotalOf, MapThenFoldSet

\* A window has a total, and none of its slices counts more.
LEMMA WindowHasTotal ==
    ASSUME NEW b, WindowOK(b)
    PROVE  /\ IsFiniteSet(Indices) /\ Totals(b) \in [Indices -> Nat]
           /\ \E g : IsSum(g, Totals(b), Indices) /\ TotalOf(b) = g[Indices]
           /\ TotalOf(b) \in Nat
<1>1. IsFiniteSet(Indices)
    BY FS_Interval, BreakerAssumption DEF Indices
<1>2. Totals(b) \in [Indices -> Nat]
    <2>1. \A i \in Indices : b[i].total \in Nat
        BY BreakerAssumption DEF WindowOK, Bucket
    <2> QED BY <2>1 DEF Totals
<1>3. PICK g : IsSum(g, Totals(b), Indices)
    BY <1>1, <1>2, SumExists
<1>4. TotalOf(b) = g[Indices] /\ g[Indices] \in Nat
    BY <1>3, TotalIsSum DEF IsSum
<1> QED BY <1>1, <1>2, <1>3, <1>4

\* An empty window has no calls.
LEMMA EmptyTotal == TotalOf(NoBuckets) = 0
<1>1. WindowOK(NoBuckets)
    BY EmptyWindow
<1>2. IsFiniteSet(Indices) /\ Totals(NoBuckets) \in [Indices -> Nat]
    BY <1>1, WindowHasTotal
<1>3. PICK g : IsSum(g, Totals(NoBuckets), Indices) /\ TotalOf(NoBuckets) = g[Indices]
    BY <1>1, WindowHasTotal
<1>4. \A i \in Indices : Totals(NoBuckets)[i] <= 0
    BY DEF Totals, NoBuckets, Empty
<1>5. g[Indices] <= 0 * Cardinality(Indices)
    BY <1>2, <1>3, <1>4, SumIsBounded
<1>6. g[Indices] \in Nat /\ Cardinality(Indices) \in Nat
    BY <1>2, <1>3, FS_CardinalityType DEF IsSum
<1> QED BY <1>3, <1>5, <1>6

\* Another bucket in one place: the total changes by the difference.
LEMMA TotalMoves ==
    ASSUME NEW b, WindowOK(b), NEW i \in Indices, NEW n \in Bucket,
           WindowOK([b EXCEPT ![i] = n])
    PROVE  TotalOf([b EXCEPT ![i] = n]) + b[i].total = TotalOf(b) + n.total
<1> DEFINE v == [b EXCEPT ![i] = n]
           w == Totals(b)
           t == n.total
<1>1. IsFiniteSet(Indices) /\ w \in [Indices -> Nat]
    BY WindowHasTotal
<1>2. PICK g : IsSum(g, w, Indices) /\ TotalOf(b) = g[Indices]
    BY WindowHasTotal
<1>3. t \in Nat /\ b[i].total \in Nat /\ w[i] = b[i].total
    BY BreakerAssumption DEF WindowOK, Bucket, Totals
<1>4. Totals(v) = [w EXCEPT ![i] = t]
    BY DEF WindowOK, Totals
<1>5. g[Indices] = w[i] + g[Indices \ {i}] /\ g[Indices \ {i}] \in Nat
    BY <1>2 DEF IsSum
<1> HIDE DEF v, w, t
<1>6. PICK h : IsSum(h, [w EXCEPT ![i] = t], Indices) /\ h[Indices] = g[Indices \ {i}] + t
    <2>1. Moves(g, w, Indices, i, t)
        BY <1>1, <1>2, <1>3, SumMoves
    <2> QED BY <2>1 DEF Moves
<1>7. TotalOf(v) = h[Indices]
    BY <1>4, <1>6, TotalIsSum
<1>8. TotalOf(v) + b[i].total = TotalOf(b) + t
    BY <1>2, <1>3, <1>5, <1>6, <1>7
<1> QED BY <1>8 DEF v, t

\* Record's outcome is at most one more.
LEMMA CountedTotal ==
    ASSUME BreakerOK, NEW ok \in BOOLEAN, NEW slow \in BOOLEAN
    PROVE  TotalOf(Counted(ok, slow)) <= TotalOf(buckets) + 1
<1>0. CASE Full
    <2>1. Counted(ok, slow) = buckets
        BY <1>0 DEF Counted
    <2>2. TotalOf(Counted(ok, slow)) = TotalOf(buckets)
        BY <2>1
    <2>3. TotalOf(buckets) \in Nat
        BY WindowHasTotal DEF BreakerOK
    <2> HIDE DEF TotalOf
    <2> QED BY <2>2, <2>3
<1> SUFFICES ASSUME ~Full PROVE TotalOf(Counted(ok, slow)) <= TotalOf(buckets) + 1
    BY <1>0
<1> DEFINE b == buckets[currentIdx]
           n == [total |-> b.total + 1,
                 failures |-> b.failures + (IF ok THEN 0 ELSE 1),
                 slow |-> b.slow + (IF slow THEN 1 ELSE 0)]
<1>1. WindowOK(buckets) /\ currentIdx \in Indices /\ b \in Bucket
      /\ b.failures <= b.total /\ b.slow <= b.total /\ ~(b.total >= MaxTotal)
    BY DEF BreakerOK, WindowOK, Full
<1>2. n \in Bucket /\ n.total = b.total + 1 /\ b.total \in Nat
    BY <1>1, BreakerAssumption DEF Bucket
<1>3. Counted(ok, slow) = [buckets EXCEPT ![currentIdx] = n]
    BY DEF Counted
<1>4. WindowOK(Counted(ok, slow))
    BY CountedOK
<1> HIDE DEF n
<1>5. TotalOf(Counted(ok, slow)) + b.total = TotalOf(buckets) + n.total
    <2>1. WindowOK([buckets EXCEPT ![currentIdx] = n])
        BY <1>3, <1>4
    <2>2. TotalOf([buckets EXCEPT ![currentIdx] = n]) + buckets[currentIdx].total
              = TotalOf(buckets) + n.total
        BY <1>1, <1>2, <2>1, TotalMoves
    <2> QED BY <1>3, <2>2
<1>6. TotalOf(Counted(ok, slow)) \in Nat /\ TotalOf(buckets) \in Nat
    BY <1>1, <1>4, WindowHasTotal
<1> HIDE DEF b
<1> QED BY <1>2, <1>5, <1>6

\* evaluate opens nothing on an empty window, and needs minCalls outcomes.
LEMMA TripsAfterCalls ==
    ASSUME NEW b, NEW idx, Trips(b, idx), TotalOf(b) \in Nat
    PROVE  TotalOf(b) >= 1 /\ (MinCalls >= 3 => TotalOf(b) >= 3)
<1>1. TotalOf(b) >= 3 \/ TotalOf(b) >= 5 \/ TotalOf(b) >= MinCalls
    BY DEF Trips, TotalOf, MapThenFoldSet
<1>2. MinCalls \in Nat \ {0}
    BY BreakerAssumption
<1> HIDE DEF TotalOf
<1> QED BY <1>1, <1>2

\* A closed breaker counts only what was recorded since it closed.
SeenCovers == state = "closed" => seen = 3 \/ TotalOf(buckets) <= seen

\* Every step keeps SeenCovers, and an evaluation that opens has seen enough calls.
LEMMA NextSeenCovers ==
    ASSUME IInv, SeenCovers, MinCalls >= 3, [Next]_vars
    PROVE  /\ SeenCovers'
           /\ \A c \in Callers : Active(c) /\ call'[c] = Idle /\ state' = "closed"
                => ~Trips(buckets', currentIdx')
           /\ state = "closed" /\ state' = "open" => seen' >= 3
<1>1. WindowOK(buckets) /\ seen \in 0..3 /\ BreakerOK /\ CallsOK
    BY DEF IInv, BreakerOK, CallsOK
<1>2. TotalOf(buckets) \in Nat
    BY <1>1, WindowHasTotal
<1> DEFINE Judged == \A c \in Callers : Active(c) /\ call'[c] = Idle /\ state' = "closed"
                       => ~Trips(buckets', currentIdx')
           Earned == state = "closed" /\ state' = "open" => seen' >= 3
<1>3. \A c \in Callers : Active(c) => call[c] # Idle
    BY DEF Active, Idle
<1>4. ASSUME Evaluate, UNCHANGED seen PROVE SeenCovers' /\ Earned
    <2>1. CASE state = "closed" /\ Trips(buckets, currentIdx) /\ Opened
        <3>1. TotalOf(buckets) >= 3
            BY <1>2, <2>1, TripsAfterCalls
        <3> QED BY <1>1, <1>2, <1>4, <2>1, <3>1 DEF SeenCovers, Opened
    <2>2. CASE state = "closed" /\ UNCHANGED <<state, buckets>>
        BY <1>4, <2>2 DEF SeenCovers
    <2>3. CASE state # "closed" /\ state' # "closed"
        BY <2>3 DEF SeenCovers
    <2> QED BY <1>4, <2>1, <2>2, <2>3 DEF Evaluate, EvaluateClosed, EvaluateOpen
<1>5. ASSUME NEW c \in Callers, Allow(c) PROVE SeenCovers' /\ Judged /\ Earned
    <2>1. SeenCovers' /\ Earned
        BY <1>4, <1>5 DEF Allow
    <2>2. \A d \in Callers : Active(d) => call'[d] # Idle
        BY <1>1, <1>3, <1>5 DEF Allow, CallsOK
    <2> QED BY <2>1, <2>2
<1>6. ASSUME NEW c \in Callers, NEW ok \in BOOLEAN, NEW slow \in BOOLEAN, Record(c, ok, slow)
      PROVE  SeenCovers' /\ Judged /\ Earned
    <2> DEFINE b == Counted(ok, slow)
    <2>1. WindowOK(b) /\ TotalOf(b) <= TotalOf(buckets) + 1
        BY <1>1, <1>6, CountedOK, CountedTotal DEF Record
    <2>2. TotalOf(b) \in Nat
        BY <2>1, WindowHasTotal
    <2>3. seen' = IF state # "closed" /\ state' = "closed" THEN 0
                  ELSE IF state = "closed" /\ seen < 3 THEN seen + 1 ELSE seen
        BY <1>6 DEF Record
    <2> HIDE DEF b
    <2>4. CASE state = "closed" /\ Trips(b, currentIdx) /\ Opened
        <3>1. TotalOf(b) >= 3
            BY <2>2, <2>4, TripsAfterCalls
        <3>2. state' = "open" /\ seen' >= 3
            BY <1>1, <1>2, <2>1, <2>2, <2>3, <2>4, <3>1 DEF SeenCovers, Opened
        <3> QED BY <3>2 DEF SeenCovers
    <2>5. CASE /\ state = "closed" /\ ~Trips(b, currentIdx) /\ buckets' = b
               /\ UNCHANGED <<state, currentIdx>>
        <3>1. seen' = 3 \/ TotalOf(b) <= seen'
            BY <1>1, <1>2, <2>1, <2>2, <2>3, <2>5 DEF SeenCovers
        <3> QED BY <2>5, <3>1 DEF SeenCovers
    <2>6. CASE state = "half-open" /\ Closed
        <3>1. ~Trips(NoBuckets, 0)
            BY EmptyTotal, TripsAfterCalls
        <3>2. buckets' = NoBuckets /\ currentIdx' = 0 /\ state' = "closed" /\ seen' = 0
            BY <2>3, <2>6 DEF Closed
        <3> QED BY <2>6, <3>1, <3>2, EmptyTotal DEF SeenCovers
    <2>7. CASE state # "closed" /\ state' # "closed"
        BY <2>7 DEF SeenCovers
    <2> QED BY <1>6, <2>4, <2>5, <2>6, <2>7
            DEF Record, EvaluateClosed, EvaluateOpen, Opened, b
<1>7. CASE State
    <2>1. SeenCovers' /\ Earned
        BY <1>4, <1>7 DEF State
    <2>2. \A d \in Callers : Active(d) => call'[d] # Idle
        BY <1>3, <1>7 DEF State
    <2> QED BY <2>1, <2>2
<1>8. CASE AdvanceBucket
    <2> DEFINE next == (currentIdx + 1) % NumBuckets
    <2>1. next \in Indices /\ Empty \in Bucket /\ Empty.total = 0
        BY <1>1, BreakerAssumption DEF BreakerOK, Indices, Empty, Bucket
    <2>2. buckets' = [buckets EXCEPT ![next] = Empty] /\ UNCHANGED <<state, call, seen>>
        BY <1>8 DEF AdvanceBucket
    <2> HIDE DEF next
    <2>3. WindowOK([buckets EXCEPT ![next] = Empty])
        BY <1>1, <2>1 DEF WindowOK, Empty
    <2>4. TotalOf([buckets EXCEPT ![next] = Empty]) + buckets[next].total
            = TotalOf(buckets) + Empty.total
        BY <1>1, <2>1, <2>3, TotalMoves
    <2>5. buckets[next].total \in Nat /\ TotalOf([buckets EXCEPT ![next] = Empty]) \in Nat
        <3>1. buckets[next].total \in Nat
            BY <1>1, <2>1, BreakerAssumption DEF WindowOK, Bucket
        <3>2. TotalOf([buckets EXCEPT ![next] = Empty]) \in Nat
            BY <2>3, WindowHasTotal
        <3> QED BY <3>1, <3>2
    <2>6. TotalOf(buckets') <= TotalOf(buckets)
        BY <1>2, <2>1, <2>2, <2>4, <2>5
    <2>7. TotalOf(buckets') \in Nat
        BY <2>2, <2>5
    <2> QED BY <1>1, <1>2, <1>3, <2>2, <2>6, <2>7 DEF SeenCovers
<1>9. CASE Tick \/ Recover \/ UNCHANGED vars
    <2>1. UNCHANGED <<seen, buckets, call>>
        BY <1>9 DEF Tick, Recover, vars
    <2>2. state' # "closed" \/ state' = state
        BY <1>9 DEF Tick, Recover, vars
    <2>3. TotalOf(buckets)' = TotalOf(buckets)
        BY <2>1
    <2>4. SeenCovers'
        BY <2>1, <2>2, <2>3 DEF SeenCovers
    <2>5. Judged
        BY <1>3, <2>1
    <2>6. Earned
        BY <1>9 DEF Tick, Recover, vars
    <2> QED BY <2>4, <2>5, <2>6
<1> QED BY <1>5, <1>6, <1>7, <1>8, <1>9 DEF Next, Outcome

(***************************************************************************)
(* Record judges the window it has just written: a breaker that stays or   *)
(* becomes closed has counts that do not open it, and one that opens has   *)
(* seen at least three outcomes since it closed, since an empty window     *)
(* counts nothing of before.  The gateway builds every breaker with        *)
(* NewCircuitBreaker, whose MinCallsBeforeEvaluation is 5.                 *)
(***************************************************************************)
THEOREM ClosingIsJustified ==
    ASSUME MinCalls >= 3
    PROVE  Spec => ClosedIsJustified
<1>1. Init => SeenCovers
    BY EmptyTotal DEF Init, SeenCovers
<1>2. IInv /\ SeenCovers /\ [Next]_vars => SeenCovers'
    BY NextSeenCovers
<1>3. IInv /\ SeenCovers /\ [Next]_vars =>
        [/\ \A c \in Callers : Active(c) /\ call'[c] = Idle /\ state' = "closed"
              => ~Trips(buckets', currentIdx')
         /\ state = "closed" /\ state' = "open" => seen' >= 3]_vars
    BY NextSeenCovers
<1> QED BY <1>1, <1>2, <1>3, InvariantHolds, PTL DEF Spec, ClosedIsJustified
-----------------------------------------------------------------------------
(***************************************************************************)
(* StreamPath, what happens behind the breaker: the invariant is one of    *)
(* each request, and no step touches two requests.                         *)
(***************************************************************************)
Chunks == [from : Nat, n : Nat, tool : Nat, usage : Nat]
Kinds == {"Auth", "Permission", "RateLimit", "ModelNotFound", "ContextWindow",
          "ContentPolicy", "ServerError", "BadRequest", "Network", "Timeout", "Unknown"}

StreamTypes ==
    /\ at \in [Requests -> {"connecting", "waiting", "open", "ended"}]
    /\ attempt \in [Requests -> 0..MaxRetries] /\ budget \in 0..Budget
    /\ outcome \in [Requests -> {Untried, Ok} \cup Failures]
    /\ gone \in [Requests -> BOOLEAN]
    /\ reader \in [Requests -> {"off", "reading", "sending", "closed"}]
    /\ sent \in [Requests -> Seq(Chunks)] /\ held \in [Requests -> Seq(Chunks)]
    /\ chan \in [Requests -> Seq(Chunks)] /\ out \in [Requests -> Seq(Chunks)]
    /\ calls \in [Requests -> Seq(Seq(Nat))]
    /\ usage \in [Requests -> Nat] /\ charged \in [Requests -> Seq(Nat)]
    /\ end \in [Requests -> {"running", "broken", "done"} \cup Kinds]

\* Before the stream is open nothing has been read.
Fresh(r) ==
    /\ reader[r] = "off" /\ usage[r] = 0
    /\ sent[r] = <<>> /\ held[r] = <<>> /\ chan[r] = <<>> /\ out[r] = <<>>
    /\ calls[r] = <<>> /\ charged[r] = <<>>

PhaseFits(r) ==
    /\ end[r] = "running" <=> at[r] # "ended"
    /\ at[r] \in {"connecting", "waiting"} \/ end[r] \in Kinds => Fresh(r)
    /\ at[r] = "open" => reader[r] # "off"
    /\ end[r] \in {"done", "broken"} => reader[r] = "closed" /\ chan[r] = <<>>
    /\ end[r] # "done" => charged[r] = <<>>

\* What the upstream sent, in one attempt; a tool call starts after the ones before it.
Numbered(r) ==
    /\ Len(sent[r]) <= MaxChunks[r] /\ Len(chan[r]) <= Buffer
    /\ \A i \in 1..Len(sent[r]) :
         LET c == sent[r][i]
         IN  /\ c.n = i /\ c.from = attempt[r] /\ c.usage \in {0, i}
             /\ \A t \in 1..(c.tool - 1) : \E j \in 1..(i - 1) : sent[r][j].tool = t

\* It is passed on whole; the failure comes last.
Whole(r) == out[r] \o chan[r] \o held[r] = sent[r]
Broken(r) ==
    /\ out[r] \o chan[r] \o held[r] = Append(sent[r], Failure)
    /\ reader[r] = "closed" \/ (reader[r] = "sending" /\ held[r] = <<Failure>>)
Carried(r) ==
    /\ reader[r] = "sending" => Len(held[r]) = 1
    /\ reader[r] # "sending" => held[r] = <<>>
    /\ Whole(r) \/ Broken(r)
    /\ Len(out[r]) <= Len(sent[r])

\* The consumer's sums: the last report, and the tool calls.
Reports(r) == {i \in DOMAIN out[r] : out[r][i].usage > 0}
Fragments(r, t) == {i \in DOMAIN out[r] : out[r][i].tool = t}
LastReport(r, u) ==
    /\ Reports(r) = {} => u = 0
    /\ Reports(r) # {} => \E i \in Reports(r) : /\ \A j \in Reports(r) : j <= i
                                                /\ u = out[r][i].usage
MergedCall(r, t) ==
    /\ Fragments(r, t) # {} /\ ToSet(calls[r][t]) = Fragments(r, t)
    /\ \A i, j \in DOMAIN calls[r][t] : i < j => calls[r][t][i] < calls[r][t][j]
Merged(r) ==
    /\ \A t \in 1..Len(calls[r]) : MergedCall(r, t)
    /\ \A t \in Nat \ {0} : t > Len(calls[r]) => Fragments(r, t) = {}
Consumed(r) ==
    /\ usage[r] \in 0..Len(sent[r]) /\ LastReport(r, usage[r])
    /\ r \notin Streaming => Merged(r)

Settled(r) ==
    /\ end[r] = "done" =>
         /\ out[r] = sent[r]
         /\ charged[r] = IF usage[r] = 0 THEN <<>> ELSE <<usage[r]>>
    /\ end[r] \in Kinds =>
         /\ attempt[r] = MaxRetries \/ gone[r]
         /\ Retryable(end[r]) <=> \/ outcome[r].error \in {"timeout", "refused"}
                                  \/ outcome[r].status \in {429} \cup 500..599

RequestInv(r) == PhaseFits(r) /\ Numbered(r) /\ Carried(r) /\ Consumed(r) /\ Settled(r)
StreamInv == StreamTypes /\ \A r \in Requests : RequestInv(r)

Here(r) == <<at[r], attempt[r], outcome[r], gone[r], sent[r], reader[r], held[r], chan[r],
             out[r], calls[r], usage[r], charged[r], end[r]>>

\* A step of one request leaves the others.
LEMMA Untouched ==
    ASSUME NEW r \in Requests, RequestInv(r), UNCHANGED Here(r)
    PROVE  RequestInv(r)'
<1>1. PhaseFits(r)' /\ Numbered(r)' /\ Settled(r)'
    BY DEF RequestInv, Here, PhaseFits, Fresh, Numbered, Settled
<1>2. Carried(r)'
    BY DEF RequestInv, Here, Carried, Whole, Broken
<1>3. Consumed(r)'
    BY DEF RequestInv, Here, Consumed, LastReport, Reports, Merged, MergedCall, Fragments
<1> QED BY <1>1, <1>2, <1>3 DEF RequestInv

\* What is in the channel, behind it and before it.
LEMMA FailureIsChunk == Failure \in Chunks /\ \A r \in Requests : StreamTypes => held[r] \in Seq(Chunks)
BY DEF Failure, Chunks, StreamTypes

\* Sending takes the chunk that is held into the channel, behind the others.
LEMMA SendMoves ==
    ASSUME NEW o \in Seq(Chunks), NEW c \in Seq(Chunks), NEW h \in Seq(Chunks)
    PROVE  o \o (c \o h) \o <<>> = o \o c \o h
<1>1. c \o h \in Seq(Chunks) /\ o \o (c \o h) \in Seq(Chunks)
    BY ConcatProperties
<1>2. o \o (c \o h) \o <<>> = o \o (c \o h)
    BY <1>1, ConcatEmptySeq
<1> QED BY <1>2, ConcatAssociative

\* A sequence is its head and its tail.
LEMMA HeadLeads ==
    ASSUME NEW c \in Seq(Chunks), c # <<>>
    PROVE  <<Head(c)>> \o Tail(c) = c
BY SMT

\* Receiving takes the head of the channel to the end of what the caller has.
LEMMA ReceiveMoves ==
    ASSUME NEW o \in Seq(Chunks), NEW c \in Seq(Chunks), NEW h \in Seq(Chunks), c # <<>>
    PROVE  Append(o, Head(c)) \o Tail(c) \o h = o \o c \o h
<1>1. Head(c) \in Chunks /\ Tail(c) \in Seq(Chunks) /\ <<Head(c)>> \in Seq(Chunks)
    BY HeadTailProperties
<1>2. Append(o, Head(c)) = o \o <<Head(c)>>
    BY <1>1, AppendIsConcat
<1>3. (o \o <<Head(c)>>) \o Tail(c) = o \o (<<Head(c)>> \o Tail(c))
    BY <1>1, ConcatAssociative
<1>4. <<Head(c)>> \o Tail(c) = c
    BY HeadLeads
<1> QED BY <1>2, <1>3, <1>4

\* The places of a concatenation of three.
LEMMA ThreeParts ==
    ASSUME NEW o \in Seq(Chunks), NEW c \in Seq(Chunks), NEW h \in Seq(Chunks)
    PROVE  /\ o \o c \o h \in Seq(Chunks)
           /\ Len(o \o c \o h) = Len(o) + Len(c) + Len(h)
           /\ \A i \in 1..Len(o) : (o \o c \o h)[i] = o[i]
           /\ c # <<>> => (o \o c \o h)[Len(o) + 1] = Head(c)
           /\ o \o c \o <<>> = o \o c
           /\ \A e \in Chunks : o \o c \o <<e>> = Append(o \o c, e)
           /\ o \o <<>> \o <<>> = o
<1>1. o \o c \in Seq(Chunks) /\ Len(o \o c) = Len(o) + Len(c)
    BY ConcatProperties
<1>2. o \o c \o h \in Seq(Chunks) /\ Len(o \o c \o h) = Len(o) + Len(c) + Len(h)
    BY <1>1, ConcatProperties
<1>3. \A i \in 1..(Len(o) + Len(c)) : (o \o c \o h)[i] = (o \o c)[i]
    BY <1>1, ConcatProperties, LenProperties
<1>4. \A i \in 1..Len(o) : (o \o c)[i] = o[i]
    BY ConcatProperties, LenProperties
<1>5. ASSUME c # <<>> PROVE (o \o c)[Len(o) + 1] = Head(c)
    <2>1. Len(c) \in Nat \ {0} /\ Len(o) \in Nat
        BY <1>5, EmptySeq, LenProperties
    <2>2. Len(o) + 1 \in 1..(Len(o) + Len(c))
        BY <2>1
    <2>3. (o \o c)[Len(o) + 1] = c[1]
        BY <2>1, <2>2, ConcatProperties
    <2> QED BY <1>5, <2>3
<1>6. o \o c \o <<>> = o \o c /\ o \o <<>> \o <<>> = o
    BY <1>1, ConcatEmptySeq
<1>7. \A e \in Chunks : o \o c \o <<e>> = Append(o \o c, e)
    BY <1>1, AppendIsConcat
<1>8. Len(o) \in Nat /\ Len(c) \in Nat
    BY LenProperties
<1>9. \A i \in 1..Len(o) : (o \o c \o h)[i] = o[i]
    BY <1>3, <1>4, <1>8
<1>10. c # <<>> => (o \o c \o h)[Len(o) + 1] = Head(c)
    <2>1. c # <<>> => Len(c) \in Nat \ {0}
        BY EmptySeq
    <2>2. c # <<>> => Len(o) + 1 \in 1..(Len(o) + Len(c))
        BY <1>8, <2>1
    <2> QED BY <1>3, <1>5, <2>2
<1> QED BY <1>2, <1>6, <1>7, <1>9, <1>10

\* What KindOf makes of a failure, and which kinds are worth another provider.
LEMMA KindsOfFailures ==
    ASSUME NEW o \in Failures
    PROVE  /\ KindOf(o) \in Kinds
           /\ Retryable(KindOf(o)) <=> \/ o.error \in {"timeout", "refused"}
                                       \/ o.status \in {429} \cup 500..599
<1>1. CASE o \in [status : Statuses, error : {"none"}]
    <2>1. o.error = "none" /\ o.status \in 201..599
        BY <1>1, StreamAssumption
    <2> DEFINE status == o.status
               kind == KindOf(o)
    <2>2. kind = CASE status = 401  -> "Auth"
                   [] status = 403  -> "Permission"
                   [] status = 429  -> "RateLimit"
                   [] status = 404  -> "ModelNotFound"
                   [] status = 413  -> "ContextWindow"
                   [] status >= 500 -> "ServerError"
                   [] status \in 400..499 /\ status \notin {401, 403, 404, 413, 429} -> "BadRequest"
                   [] status < 400  -> "Unknown"
        BY <2>1 DEF KindOf, ClassifyErrorWithMessage
    <2>3. status \in Int
        BY <2>1
    <2>4. status \in {429} \cup 500..599 <=> status = 429 \/ status >= 500
        BY <2>1
    <2> HIDE DEF status, kind
    <2>5. CASE status = 429
        BY <2>2, <2>4, <2>5 DEF Kinds, Retryable, kind, status
    <2>6. CASE status >= 500
        <3>1. kind = "ServerError"
            BY <2>2, <2>3, <2>6
        <3> QED BY <2>4, <2>6, <3>1 DEF Kinds, Retryable, kind, status
    <2>7. CASE status # 429 /\ ~(status >= 500)
        <3>1. kind \in {"Auth", "Permission", "ModelNotFound", "ContextWindow", "BadRequest",
                        "Unknown"}
            BY <2>2, <2>3, <2>7
        <3> QED BY <2>1, <2>4, <2>7, <3>1 DEF Kinds, Retryable, kind, status
    <2> QED BY <2>5, <2>6, <2>7
<1>2. CASE o \in [status : {0}, error : Errors]
    BY <1>2 DEF KindOf, ClassifyError, Errors, Kinds, Retryable
<1> QED BY <1>1, <1>2 DEF Failures

\* StreamInit establishes StreamInv.
LEMMA InitStreamInv == StreamInit => StreamInv
<1> SUFFICES ASSUME StreamInit PROVE StreamInv
    OBVIOUS
<1>1. StreamTypes
    <2>1. \A S : <<>> \in Seq(S)
        BY EmptySeq
    <2> QED BY <2>1, StreamAssumption DEF StreamInit, StreamTypes
<1>2. ASSUME NEW r \in Requests PROVE RequestInv(r)
    <2>1. Fresh(r) /\ at[r] = "connecting" /\ end[r] = "running"
        BY DEF StreamInit, Fresh
    <2>2. PhaseFits(r) /\ Settled(r)
        BY <2>1 DEF PhaseFits, Settled, Fresh, Kinds
    <2>3. Len(<<>>) = 0 /\ <<>> \o <<>> \o <<>> = <<>>
        OBVIOUS
    <2>4. Numbered(r)
        BY <2>1, <2>3, StreamAssumption DEF Numbered, Fresh
    <2>5. Carried(r)
        BY <2>1, <2>3 DEF Carried, Whole, Fresh
    <2>6. Reports(r) = {} /\ \A t : Fragments(r, t) = {}
        BY <2>1 DEF Fresh, Reports, Fragments
    <2>7. Consumed(r)
        BY <2>1, <2>3, <2>6 DEF Fresh, Consumed, LastReport, Merged
    <2> QED BY <2>2, <2>4, <2>5, <2>7 DEF RequestInv
<1> QED BY <1>1, <1>2 DEF StreamInv

\* What a step of r has to keep.
Keeps(r) == /\ StreamTypes' /\ RequestInv(r)'
            /\ \A q \in Requests \ {r} : UNCHANGED Here(q)

\* While a request connects, nothing has been read.
LEMMA StillFresh ==
    ASSUME NEW r \in Requests, RequestInv(r), Fresh(r), reader'[r] \in {"off", "reading"},
           UNCHANGED <<sent[r], held[r], chan[r], out[r], calls[r], usage[r], charged[r]>>
    PROVE  Numbered(r)' /\ Carried(r)' /\ Consumed(r)'
<1>1. Len(<<>>) = 0 /\ <<>> \o <<>> \o <<>> = <<>>
    OBVIOUS
<1>2. Numbered(r)'
    BY <1>1, StreamAssumption DEF Numbered, Fresh
<1>3. Carried(r)'
    BY <1>1 DEF Carried, Whole, Fresh
<1>4. Consumed(r)'
    BY DEF RequestInv, Consumed, LastReport, Reports, Merged, MergedCall, Fragments
<1> QED BY <1>2, <1>3, <1>4

\* A connection keeps the request in its place.
LEMMA ConnectedKeeps ==
    ASSUME StreamTypes, NEW r \in Requests, RequestInv(r), Connected(r)
    PROVE  Keeps(r)
<1>1. StreamTypes'
    BY DEF StreamTypes, Connected, answer
<1>2. /\ at'[r] = "open" /\ reader'[r] = "reading"
      /\ UNCHANGED <<end[r], sent[r], held[r], chan[r], out[r], calls[r], usage[r], charged[r]>>
    BY DEF StreamTypes, Connected, answer
<1>3. Fresh(r) /\ end[r] = "running"
    BY DEF RequestInv, PhaseFits, Connected
<1>4. Numbered(r)' /\ Carried(r)' /\ Consumed(r)'
    BY <1>2, <1>3, StillFresh
<1>5. PhaseFits(r)' /\ Settled(r)'
    BY <1>2, <1>3 DEF PhaseFits, Settled, Fresh, Kinds
<1>6. \A q \in Requests \ {r} : UNCHANGED Here(q)
    BY DEF StreamTypes, Connected, answer, Here
<1> QED BY <1>1, <1>4, <1>5, <1>6 DEF Keeps, RequestInv

\* So does a failed attempt.
LEMMA AttemptFailsKeeps ==
    ASSUME StreamTypes, NEW r \in Requests, RequestInv(r), NEW o \in Failures, AttemptFails(r, o)
    PROVE  Keeps(r)
<1>1. /\ UNCHANGED <<gone, reading, answer>> /\ at[r] = "connecting"
      /\ UNCHANGED <<sent[r], held[r], chan[r], out[r], calls[r], usage[r], charged[r], reader[r]>>
    BY DEF AttemptFails, reading, answer
<1>2. Fresh(r) /\ end[r] = "running"
    BY <1>1 DEF RequestInv, PhaseFits
<1>3. Numbered(r)' /\ Carried(r)' /\ Consumed(r)' /\ Fresh(r)'
    BY <1>1, <1>2, StillFresh DEF Fresh
<1>4. CASE attempt[r] = MaxRetries
    <2>1. /\ at' = [at EXCEPT ![r] = "ended"] /\ end' = [end EXCEPT ![r] = KindOf(o)]
          /\ outcome' = [outcome EXCEPT ![r] = o] /\ UNCHANGED <<attempt, budget>>
        BY <1>4 DEF AttemptFails, GiveUp
    <2>2. StreamTypes'
        BY <1>1, <2>1, KindsOfFailures DEF StreamTypes, reading, answer
    <2>3. /\ at'[r] = "ended" /\ end'[r] = KindOf(o) /\ outcome'[r] = o /\ attempt'[r] = MaxRetries
        BY <1>4, <2>1 DEF StreamTypes
    <2>4. PhaseFits(r)'
        <3>1. end'[r] \notin {"running", "broken", "done"}
            BY <2>3, KindsOfFailures DEF Kinds
        <3>2. charged'[r] = <<>>
            BY <1>3 DEF Fresh
        <3> QED BY <1>3, <2>3, <3>1, <3>2 DEF PhaseFits
    <2>5. Settled(r)'
        <3>1. end'[r] # "done"
            BY <2>3, KindsOfFailures DEF Kinds
        <3>2. Retryable(end'[r]) <=> \/ outcome'[r].error \in {"timeout", "refused"}
                                    \/ outcome'[r].status \in {429} \cup 500..599
            BY <2>3, KindsOfFailures DEF Retryable
        <3> QED BY <2>3, <3>1, <3>2 DEF Settled
    <2>6. \A q \in Requests \ {r} : UNCHANGED Here(q)
        BY <1>1, <2>1 DEF StreamTypes, reading, answer, Here
    <2> QED BY <1>3, <2>2, <2>4, <2>5, <2>6 DEF Keeps, RequestInv
<1>5. CASE attempt[r] # MaxRetries
    <2>1. /\ attempt' = [attempt EXCEPT ![r] = @ + 1] /\ UNCHANGED <<outcome, end>>
          /\ \/ MayWait /\ Consume /\ at' = [at EXCEPT ![r] = "waiting"]
             \/ UNCHANGED <<budget, at>>
        BY <1>5 DEF AttemptFails
    <2>2. StreamTypes'
        <3>1. budget' \in 0..Budget
            BY <2>1, StreamAssumption DEF StreamTypes, MayWait, Consume
        <3>2. attempt' \in [Requests -> 0..MaxRetries]
            <4>1. attempt \in [Requests -> 0..MaxRetries] /\ attempt[r] \in 0..MaxRetries
                BY DEF StreamTypes
            <4>2. attempt[r] + 1 \in 0..MaxRetries
                BY <1>5, <4>1, StreamAssumption
            <4> QED BY <2>1, <4>1, <4>2
        <3>3. at' \in [Requests -> {"connecting", "waiting", "open", "ended"}]
            BY <2>1 DEF StreamTypes
        <3> QED BY <1>1, <2>1, <3>1, <3>2, <3>3 DEF StreamTypes, reading, answer
    <2>3. at'[r] \in {"connecting", "waiting"} /\ end'[r] = "running"
        BY <1>1, <1>2, <2>1 DEF StreamTypes
    <2>4. PhaseFits(r)' /\ Settled(r)'
        BY <1>3, <2>3 DEF PhaseFits, Fresh, Settled, Kinds
    <2>5. \A q \in Requests \ {r} : UNCHANGED Here(q)
        BY <1>1, <2>1 DEF StreamTypes, reading, answer, Here
    <2> QED BY <1>3, <2>2, <2>4, <2>5 DEF Keeps, RequestInv
<1> QED BY <1>4, <1>5

\* So does the end of a backoff.
LEMMA BackoffKeeps ==
    ASSUME StreamTypes, NEW r \in Requests, RequestInv(r), BackoffEnds(r) \/ BackoffCanceled(r)
    PROVE  Keeps(r)
<1>1. /\ UNCHANGED <<gone, reading, answer>> /\ at[r] = "waiting"
      /\ UNCHANGED <<sent[r], held[r], chan[r], out[r], calls[r], usage[r], charged[r], reader[r]>>
    BY DEF BackoffEnds, BackoffCanceled, reading, answer
<1>2. Fresh(r) /\ end[r] = "running"
    BY <1>1 DEF RequestInv, PhaseFits
<1>3. Numbered(r)' /\ Carried(r)' /\ Consumed(r)' /\ Fresh(r)'
    BY <1>1, <1>2, StillFresh DEF Fresh
<1>4. CASE BackoffEnds(r)
    <2>1. StreamTypes'
        BY <1>1, <1>4 DEF StreamTypes, reading, answer, connecting, BackoffEnds
    <2>2. at'[r] = "connecting" /\ end'[r] = "running"
        BY <1>2, <1>4 DEF StreamTypes, BackoffEnds
    <2>3. PhaseFits(r)' /\ Settled(r)'
        BY <1>3, <2>2 DEF PhaseFits, Fresh, Settled, Kinds
    <2>4. \A q \in Requests \ {r} : UNCHANGED Here(q)
        BY <1>1, <1>4 DEF StreamTypes, reading, answer, connecting, Here, BackoffEnds
    <2> QED BY <1>3, <2>1, <2>3, <2>4 DEF Keeps, RequestInv
<1>5. CASE BackoffCanceled(r)
    <2> DEFINE o == [status |-> 0, error |-> "canceled"]
    <2>1. /\ at' = [at EXCEPT ![r] = "ended"] /\ end' = [end EXCEPT ![r] = "Unknown"]
          /\ outcome' = [outcome EXCEPT ![r] = o] /\ UNCHANGED <<attempt, budget>> /\ gone[r]
        BY <1>5 DEF BackoffCanceled, GiveUp, ClassifyError
    <2>2. o \in Failures
        BY DEF Failures, Errors
    <2>3. StreamTypes'
        BY <1>1, <2>1, <2>2 DEF StreamTypes, reading, answer, Kinds
    <2>4. at'[r] = "ended" /\ end'[r] = "Unknown" /\ outcome'[r] = o /\ gone'[r]
        BY <1>1, <2>1 DEF StreamTypes
    <2>5. PhaseFits(r)' /\ Settled(r)'
        BY <1>3, <2>4 DEF PhaseFits, Fresh, Settled, Kinds, Retryable
    <2>6. \A q \in Requests \ {r} : UNCHANGED Here(q)
        BY <1>1, <2>1 DEF StreamTypes, reading, answer, Here
    <2> QED BY <1>3, <2>3, <2>5, <2>6 DEF Keeps, RequestInv
<1> QED BY <1>4, <1>5

\* While something can be read, the consumer runs and nothing has failed.
LEMMA ReadingIsOpen ==
    ASSUME StreamTypes, NEW r \in Requests, RequestInv(r), reader[r] \in {"reading", "sending"}
    PROVE  /\ end[r] = "running" /\ at[r] = "open" /\ charged[r] = <<>>
           /\ reader[r] = "reading" => Whole(r) /\ held[r] = <<>>
<1>1. PhaseFits(r) /\ Carried(r)
    BY DEF RequestInv
<1>2. at[r] \notin {"connecting", "waiting"} /\ end[r] \notin Kinds
    BY <1>1 DEF PhaseFits, Fresh
<1>3. end[r] = "running" /\ at[r] = "open"
    BY <1>1, <1>2 DEF PhaseFits, StreamTypes
<1>4. charged[r] = <<>>
    BY <1>1, <1>3 DEF PhaseFits
<1>5. reader[r] = "reading" => Whole(r) /\ held[r] = <<>>
    BY <1>1 DEF Carried, Broken
<1> QED BY <1>3, <1>4, <1>5

\* Nothing held back: the parts of the stream are what was sent on and what waits.
LEMMA TwoParts ==
    ASSUME NEW o \in Seq(Chunks), NEW c \in Seq(Chunks)
    PROVE  o \o c \o <<>> = o \o c
<1>1. o \o c \in Seq(Chunks)
    BY ConcatProperties
<1> QED BY <1>1, ConcatEmptySeq

\* So does a chunk read from the connection.
LEMMA ReadChunkKeeps ==
    ASSUME StreamTypes, NEW r \in Requests, RequestInv(r), ReadChunk(r)
    PROVE  Keeps(r)
<1> DEFINE n == Len(sent[r]) + 1
<1>1. reader[r] = "reading" /\ Len(sent[r]) < MaxChunks[r]
    BY DEF ReadChunk
<1>2. PICK tool \in Nat, report \in BOOLEAN :
         /\ report => tool = 0
         /\ \A t \in 1..(tool - 1) : t \in CallsSeen(r)
         /\ sent' = [sent EXCEPT ![r] = Append(@, [from |-> attempt[r], n |-> n, tool |-> tool,
                                                   usage |-> IF report THEN n ELSE 0])]
         /\ held' = [held EXCEPT ![r] = <<[from |-> attempt[r], n |-> n, tool |-> tool,
                                           usage |-> IF report THEN n ELSE 0]>>]
    <2>1. \A S \in SUBSET Nat : S \subseteq Nat
        OBVIOUS
    <2>2. (IF r \in Streaming THEN {0} ELSE 0..MaxCalls) \subseteq Nat
        BY StreamAssumption
    <2> QED BY <2>2 DEF ReadChunk
<1>3. /\ reader' = [reader EXCEPT ![r] = "sending"]
      /\ UNCHANGED <<at, attempt, outcome, budget, gone, chan, out, calls, usage, charged, end>>
    BY DEF ReadChunk, connecting, answer
<1> DEFINE c == [from |-> attempt[r], n |-> n, tool |-> tool, usage |-> IF report THEN n ELSE 0]
<1>4. Len(sent[r]) \in Nat /\ attempt[r] \in Nat
    BY LenProperties, StreamAssumption DEF StreamTypes
<1>5. /\ c \in Chunks /\ c.from = attempt[r] /\ c.n = n /\ c.tool = tool /\ c.usage \in {0, n}
    BY <1>4 DEF Chunks
<1>6. sent' = [sent EXCEPT ![r] = Append(@, c)] /\ held' = [held EXCEPT ![r] = <<c>>]
    BY <1>2
<1> HIDE DEF c
<1>7. StreamTypes'
    <2>1. Append(sent[r], c) \in Seq(Chunks) /\ <<c>> \in Seq(Chunks)
        BY <1>5, AppendProperties DEF StreamTypes
    <2> QED BY <1>3, <1>6, <2>1 DEF StreamTypes
<1>8. /\ sent'[r] = Append(sent[r], c) /\ held'[r] = <<c>> /\ reader'[r] = "sending"
      /\ UNCHANGED <<at[r], attempt[r], outcome[r], gone[r], chan[r], out[r], calls[r],
                     usage[r], charged[r], end[r]>>
    BY <1>3, <1>6 DEF StreamTypes
<1>9. end[r] = "running" /\ at[r] = "open" /\ charged[r] = <<>> /\ Whole(r) /\ held[r] = <<>>
    BY <1>1, ReadingIsOpen
<1>10. /\ Len(sent'[r]) = n /\ sent'[r][n] = c
       /\ \A i \in 1..Len(sent[r]) : sent'[r][i] = sent[r][i]
    BY <1>5, <1>8, AppendProperties DEF StreamTypes
<1>11. PhaseFits(r)' /\ Settled(r)'
    BY <1>8, <1>9 DEF PhaseFits, Settled, Kinds
<1>12. Numbered(r)'
    <2>1. Len(sent'[r]) <= MaxChunks[r] /\ Len(chan'[r]) <= Buffer
        BY <1>1, <1>4, <1>8, <1>10, StreamAssumption DEF RequestInv, Numbered
    <2>2. ASSUME NEW i \in 1..Len(sent'[r])
          PROVE  /\ sent'[r][i].n = i /\ sent'[r][i].from = attempt'[r]
                 /\ sent'[r][i].usage \in {0, i}
                 /\ \A t \in 1..(sent'[r][i].tool - 1) : \E j \in 1..(i - 1) : sent'[r][j].tool = t
        <3>1. CASE i = n
            <4>1. \A t \in 1..(tool - 1) : \E j \in 1..Len(sent[r]) : sent[r][j].tool = t
                BY <1>2, LenProperties DEF CallsSeen, StreamTypes
            <4>2. i - 1 = Len(sent[r])
                BY <1>4, <3>1
            <4>3. \A t \in 1..(tool - 1) : \E j \in 1..(i - 1) : sent'[r][j].tool = t
                BY <1>10, <4>1, <4>2
            <4>4. sent'[r][i] = c /\ attempt'[r] = attempt[r]
                BY <1>8, <1>10, <3>1
            <4> QED BY <1>5, <3>1, <4>3, <4>4
        <3>2. CASE i \in 1..Len(sent[r])
            <4>1. /\ sent[r][i].n = i /\ sent[r][i].from = attempt[r] /\ sent[r][i].usage \in {0, i}
                  /\ \A t \in 1..(sent[r][i].tool - 1) : \E j \in 1..(i - 1) : sent[r][j].tool = t
                BY <3>2 DEF RequestInv, Numbered
            <4>2. \A j \in 1..(i - 1) : j \in 1..Len(sent[r])
                BY <1>4, <3>2
            <4>3. \A j \in 1..(i - 1) : sent'[r][j] = sent[r][j]
                BY <1>10, <4>2
            <4>4. sent'[r][i] = sent[r][i] /\ attempt'[r] = attempt[r]
                BY <1>8, <1>10, <3>2
            <4> QED BY <4>1, <4>3, <4>4
        <3> QED BY <1>4, <1>10, <3>1, <3>2
    <2> QED BY <2>1, <2>2 DEF Numbered
<1>13. Carried(r)'
    <2>1. out[r] \in Seq(Chunks) /\ chan[r] \in Seq(Chunks)
        BY DEF StreamTypes
    <2>2. out[r] \o chan[r] = sent[r]
        <3>1. out[r] \o chan[r] \o <<>> = sent[r]
            BY <1>9 DEF Whole
        <3>2. out[r] \o chan[r] \o <<>> = out[r] \o chan[r]
            BY <2>1, TwoParts
        <3> QED BY <3>1, <3>2
    <2>3. out[r] \o chan[r] \o <<c>> = Append(sent[r], c)
        BY <1>5, <2>1, <2>2, ThreeParts, EmptySeq
    <2>4. Whole(r)'
        BY <1>8, <2>3 DEF Whole
    <2>5. Len(out'[r]) <= Len(sent'[r])
        BY <1>4, <1>8, <1>10, <2>1, LenProperties DEF RequestInv, Carried
    <2>6. Len(held'[r]) = 1
        BY <1>8
    <2> QED BY <1>8, <2>4, <2>5, <2>6 DEF Carried
<1>14. Consumed(r)'
    <2>1. usage'[r] \in 0..Len(sent'[r])
        BY <1>4, <1>8, <1>10 DEF RequestInv, Consumed
    <2> QED BY <1>8, <2>1 DEF RequestInv, Consumed, LastReport, Reports, Merged, MergedCall, Fragments
<1>15. \A q \in Requests \ {r} : UNCHANGED Here(q)
    BY <1>3, <1>6 DEF StreamTypes, Here
<1> QED BY <1>7, <1>11, <1>12, <1>13, <1>14, <1>15 DEF Keeps, RequestInv

\* So does a line that is no chunk.
LEMMA ReadGarbageKeeps ==
    ASSUME StreamTypes, NEW r \in Requests, RequestInv(r), ReadGarbage(r)
    PROVE  Keeps(r)
<1>1. /\ reader[r] = "reading" /\ held' = [held EXCEPT ![r] = <<Failure>>]
      /\ reader' = [reader EXCEPT ![r] = "sending"]
      /\ UNCHANGED <<at, attempt, outcome, budget, gone, sent, chan, out, calls, usage, charged, end>>
    BY DEF ReadGarbage, connecting, answer
<1>2. Failure \in Chunks /\ <<Failure>> \in Seq(Chunks)
    BY FailureIsChunk
<1> HIDE DEF Failure
<1>3. StreamTypes'
    BY <1>1, <1>2 DEF StreamTypes
<1>4. /\ held'[r] = <<Failure>> /\ reader'[r] = "sending"
      /\ UNCHANGED <<at[r], attempt[r], outcome[r], gone[r], sent[r], chan[r], out[r], calls[r],
                     usage[r], charged[r], end[r]>>
    BY <1>1 DEF StreamTypes
<1>5. end[r] = "running" /\ at[r] = "open" /\ charged[r] = <<>> /\ Whole(r) /\ held[r] = <<>>
    BY <1>1, ReadingIsOpen
<1>6. PhaseFits(r)' /\ Settled(r)'
    BY <1>4, <1>5 DEF PhaseFits, Settled, Kinds
<1>7. Numbered(r)'
    BY <1>4 DEF RequestInv, Numbered
<1>8. Carried(r)'
    <2>1. out[r] \in Seq(Chunks) /\ chan[r] \in Seq(Chunks)
        BY DEF StreamTypes
    <2>2. out[r] \o chan[r] = sent[r]
        <3>1. out[r] \o chan[r] \o <<>> = sent[r]
            BY <1>5 DEF Whole
        <3>2. out[r] \o chan[r] \o <<>> = out[r] \o chan[r]
            BY <2>1, TwoParts
        <3> QED BY <3>1, <3>2
    <2>3. out[r] \o chan[r] \o <<Failure>> = Append(sent[r], Failure)
        BY <1>2, <2>1, <2>2, ThreeParts, EmptySeq
    <2>4. Broken(r)'
        BY <1>4, <2>3 DEF Broken
    <2>5. Len(held'[r]) = 1 /\ Len(out'[r]) <= Len(sent'[r])
        BY <1>4 DEF RequestInv, Carried
    <2> QED BY <1>4, <2>4, <2>5 DEF Carried
<1>9. Consumed(r)'
    BY <1>4 DEF RequestInv, Consumed, LastReport, Reports, Merged, MergedCall, Fragments
<1>10. \A q \in Requests \ {r} : UNCHANGED Here(q)
    BY <1>1 DEF StreamTypes, Here
<1> QED BY <1>3, <1>6, <1>7, <1>8, <1>9, <1>10 DEF Keeps, RequestInv

\* So does the end of the connection.
LEMMA ReadEndKeeps ==
    ASSUME StreamTypes, NEW r \in Requests, RequestInv(r), ReadEnd(r)
    PROVE  Keeps(r)
<1>1. /\ reader[r] = "reading" /\ reader' = [reader EXCEPT ![r] = "closed"]
      /\ UNCHANGED <<at, attempt, outcome, budget, gone, sent, held, chan, out, calls, usage, charged, end>>
    BY DEF ReadEnd, connecting, answer
<1>2. StreamTypes'
    BY <1>1 DEF StreamTypes
<1>3. /\ reader'[r] = "closed"
      /\ UNCHANGED <<at[r], attempt[r], outcome[r], gone[r], sent[r], held[r], chan[r], out[r],
                     calls[r], usage[r], charged[r], end[r]>>
    BY <1>1 DEF StreamTypes
<1>4. end[r] = "running" /\ at[r] = "open" /\ charged[r] = <<>> /\ Whole(r) /\ held[r] = <<>>
    BY <1>1, ReadingIsOpen
<1>5. PhaseFits(r)' /\ Settled(r)'
    BY <1>3, <1>4 DEF PhaseFits, Settled, Kinds
<1>6. Numbered(r)'
    BY <1>3 DEF RequestInv, Numbered
<1>7. Carried(r)'
    BY <1>3, <1>4 DEF RequestInv, Carried, Whole
<1>8. Consumed(r)'
    BY <1>3 DEF RequestInv, Consumed, LastReport, Reports, Merged, MergedCall, Fragments
<1>9. \A q \in Requests \ {r} : UNCHANGED Here(q)
    BY <1>1 DEF StreamTypes, Here
<1> QED BY <1>2, <1>5, <1>6, <1>7, <1>8, <1>9 DEF Keeps, RequestInv

\* So does a send.
LEMMA SendKeeps ==
    ASSUME StreamTypes, NEW r \in Requests, RequestInv(r), Send(r)
    PROVE  Keeps(r)
<1> DEFINE next == IF held[r] = <<Failure>> THEN "closed" ELSE "reading"
<1>1. /\ reader[r] = "sending" /\ Len(chan[r]) < Buffer
      /\ chan' = [chan EXCEPT ![r] = @ \o held[r]] /\ held' = [held EXCEPT ![r] = <<>>]
      /\ reader' = [reader EXCEPT ![r] = next]
      /\ UNCHANGED <<at, attempt, outcome, budget, gone, sent, out, calls, usage, charged, end>>
    BY DEF Send, connecting, answer
<1>2. next \in {"closed", "reading"} /\ (held[r] = <<Failure>> => next = "closed")
    OBVIOUS
<1> HIDE DEF next
<1>3. /\ out[r] \in Seq(Chunks) /\ chan[r] \in Seq(Chunks) /\ held[r] \in Seq(Chunks)
      /\ chan[r] \o held[r] \in Seq(Chunks) /\ <<>> \in Seq(Chunks)
    BY ConcatProperties, EmptySeq DEF StreamTypes
<1>4. StreamTypes'
    BY <1>1, <1>2, <1>3 DEF StreamTypes
<1>5. /\ reader'[r] = next /\ chan'[r] = chan[r] \o held[r] /\ held'[r] = <<>>
      /\ UNCHANGED <<at[r], attempt[r], outcome[r], gone[r], sent[r], out[r],
                     calls[r], usage[r], charged[r], end[r]>>
    BY <1>1 DEF StreamTypes
<1>6. end[r] = "running" /\ at[r] = "open" /\ charged[r] = <<>>
    BY <1>1, ReadingIsOpen
<1>7. PhaseFits(r)' /\ Settled(r)'
    BY <1>2, <1>5, <1>6 DEF PhaseFits, Settled, Kinds
<1>8. Numbered(r)'
    <2>1. Len(held[r]) = 1
        BY <1>1 DEF RequestInv, Carried
    <2>2. Len(chan'[r]) = Len(chan[r]) + 1 /\ Len(chan[r]) \in Nat
        <3>1. Len(chan[r] \o held[r]) = Len(chan[r]) + Len(held[r]) /\ Len(chan[r]) \in Nat
            BY <1>3, ConcatProperties, LenProperties
        <3> QED BY <1>5, <2>1, <3>1
    <2>3. Len(chan'[r]) <= Buffer
        BY <1>1, <2>2, StreamAssumption
    <2>4. UNCHANGED <<sent[r], attempt[r]>>
        BY <1>5
    <2> QED BY <2>3, <2>4 DEF RequestInv, Numbered
<1>9. Carried(r)'
    <2>1. out'[r] \o chan'[r] \o held'[r] = out[r] \o chan[r] \o held[r]
        <3>1. out[r] \o (chan[r] \o held[r]) \o <<>> = out[r] \o chan[r] \o held[r]
            <4> DEFINE o == out[r]
                       c == chan[r]
                       h == held[r]
            <4>1. o \in Seq(Chunks) /\ c \in Seq(Chunks) /\ h \in Seq(Chunks)
                BY <1>3
            <4> HIDE DEF o, c, h
            <4>2. o \o (c \o h) \o <<>> = o \o c \o h
                BY ONLY <4>1, SendMoves
            <4> QED BY <4>2 DEF o, c, h
        <3> QED BY <1>5, <3>1
    <2>2. CASE Whole(r)
        BY <1>2, <1>5, <2>1, <2>2 DEF RequestInv, Carried, Whole
    <2>3. CASE Broken(r)
        <3>1. Broken(r)'
            BY <1>1, <1>2, <1>5, <2>1, <2>3 DEF Broken
        <3> QED BY <1>2, <1>5, <3>1 DEF RequestInv, Carried
    <2> QED BY <2>2, <2>3 DEF RequestInv, Carried
<1>10. Consumed(r)'
    BY <1>5 DEF RequestInv, Consumed, LastReport, Reports, Merged, MergedCall, Fragments
<1>11. \A q \in Requests \ {r} : UNCHANGED Here(q)
    BY <1>1 DEF StreamTypes, Here
<1> QED BY <1>4, <1>7, <1>8, <1>9, <1>10, <1>11 DEF Keeps, RequestInv

\* What has been passed on is how the upstream's answer begins, and the next
\* chunk of the channel comes next, or is the failure.
Splits(o, c, h, s) ==
    /\ o \in Seq(Chunks) /\ c \in Seq(Chunks) /\ h \in Seq(Chunks) /\ s \in Seq(Chunks)
    /\ Len(o) <= Len(s) /\ \A i \in 1..Len(s) : s[i] # Failure
    /\ o \o c \o h = s \/ o \o c \o h = Append(s, Failure)
InOrder(o, c, h, s) ==
    /\ \A i \in 1..Len(o) : i \in 1..Len(s) /\ o[i] = s[i]
    /\ c # <<>> /\ Head(c) # Failure =>
         Len(o) + 1 \in 1..Len(s) /\ Head(c) = s[Len(o) + 1]
    /\ c # <<>> /\ Head(c) = Failure =>
         o = s /\ Len(c) = 1 /\ h = <<>> /\ o \o c \o h # s

\* If the parts of a stream are what was sent, the first of them are in order.
LEMMA PartsInOrder == \A o, c, h, s : Splits(o, c, h, s) => InOrder(o, c, h, s)
<1> SUFFICES ASSUME NEW o, NEW c, NEW h, NEW s, Splits(o, c, h, s)
             PROVE  InOrder(o, c, h, s)
    OBVIOUS
<1> DEFINE f == Failure
<1>a. /\ o \in Seq(Chunks) /\ c \in Seq(Chunks) /\ h \in Seq(Chunks) /\ s \in Seq(Chunks)
      /\ Len(o) <= Len(s) /\ \A i \in 1..Len(s) : s[i] # f
      /\ o \o c \o h = s \/ o \o c \o h = Append(s, f)
    BY DEF Splits
<1>b. f \in Chunks
    BY FailureIsChunk
<1> HIDE DEF f
<1> DEFINE all == o \o c \o h
           m == Len(o)
           n == Len(s)
           k == Len(c)
           l == Len(h)
           first == Head(c)
           more == Append(s, f)
<1>1. m \in Nat /\ n \in Nat /\ k \in Nat /\ l \in Nat /\ m <= n
    BY <1>a, LenProperties
<1>2. Len(all) = m + k + l
    BY <1>a, ThreeParts
<1>3. \A i \in 1..m : all[i] = o[i]
    BY <1>a, ThreeParts
<1>4. c # <<>> => all[m + 1] = first /\ k >= 1
    <2>1. c # <<>> => k \in Nat \ {0}
        BY <1>a, EmptySeq
    <2> QED BY <1>a, <2>1, ThreeParts
<1>5. h # <<>> => l >= 1
    <2>1. h # <<>> => l \in Nat \ {0}
        BY <1>a, EmptySeq
    <2> QED BY <2>1
<1>6. /\ Len(more) = n + 1 /\ more[n + 1] = f
      /\ \A i \in 1..n : more[i] = s[i]
    BY <1>a, <1>b, AppendProperties
<1>7. all = s \/ all = more
    BY <1>a
<1>8. \A i \in 1..n : s[i] # f
    BY <1>a
<1>9. Len(s) = n
    BY <1>a
<1> HIDE DEF all, m, n, k, l, first, more
<1>10. \A i \in 1..n : all[i] = s[i]
    BY <1>6, <1>7
<1>11. \A i \in 1..m : i \in 1..n /\ o[i] = s[i]
    BY <1>1, <1>3, <1>10
<1>12. ASSUME c # <<>>, first # f PROVE m + 1 \in 1..n /\ first = s[m + 1]
    <2>1. all[m + 1] = first /\ k >= 1
        BY <1>4, <1>12
    <2>2. CASE m = n
        <3>1. Len(all) >= n + 1
            BY <1>1, <1>2, <2>1, <2>2
        <3>2. all # s
            BY <1>1, <1>9, <3>1
        <3> QED BY <1>6, <1>7, <1>12, <2>1, <2>2, <3>2
    <2>3. CASE m # n
        <3>1. m + 1 \in 1..n
            BY <1>1, <2>3
        <3> QED BY <1>10, <2>1, <3>1
    <2> QED BY <2>2, <2>3
<1>13. ASSUME c # <<>>, first = f PROVE o = s /\ k = 1 /\ h = <<>> /\ all # s
    <2>1. all[m + 1] = f /\ k >= 1
        BY <1>4, <1>13
    <2>2. m + 1 \notin 1..n
        BY <1>8, <1>10, <2>1
    <2>3. m = n
        BY <1>1, <2>2
    <2>4. Len(all) >= n + 1
        BY <1>1, <1>2, <2>1, <2>3
    <2>5. all # s
        BY <1>1, <1>9, <2>4
    <2>6. Len(all) = n + 1
        BY <1>6, <1>7, <2>5
    <2>7. k = 1 /\ l = 0
        BY <1>1, <1>2, <2>1, <2>3, <2>6
    <2>8. h = <<>>
        BY <1>5, <2>7
    <2>9. o = s
        BY <1>a, <1>11, <2>3, SeqEqual DEF m, n
    <2> QED BY <2>5, <2>7, <2>8, <2>9
<1> QED BY <1>11, <1>12, <1>13 DEF all, m, n, k, first, f, InOrder

\* What was received, and what is next, are what was sent at those places.
LEMMA NextInOrder ==
    ASSUME StreamTypes, NEW r \in Requests, RequestInv(r)
    PROVE  /\ \A i \in 1..Len(out[r]) : i \in 1..Len(sent[r]) /\ out[r][i] = sent[r][i]
           /\ chan[r] # <<>> /\ Head(chan[r]) # Failure =>
                /\ Len(out[r]) + 1 \in 1..Len(sent[r])
                /\ Head(chan[r]) = sent[r][Len(out[r]) + 1]
           /\ chan[r] # <<>> /\ Head(chan[r]) = Failure =>
                out[r] = sent[r] /\ Tail(chan[r]) = <<>> /\ held[r] = <<>> /\ reader[r] = "closed"
<1>1. /\ out[r] \in Seq(Chunks) /\ chan[r] \in Seq(Chunks) /\ held[r] \in Seq(Chunks)
      /\ sent[r] \in Seq(Chunks) /\ Failure \in Chunks
    BY FailureIsChunk DEF StreamTypes
<1>2. \A i \in 1..Len(sent[r]) : sent[r][i] # Failure
    <2>1. \A i \in 1..Len(sent[r]) : sent[r][i].n = i
        BY DEF RequestInv, Numbered
    <2> QED BY <2>1 DEF Failure
<1>3. /\ Len(out[r]) <= Len(sent[r])
      /\ out[r] \o chan[r] \o held[r] \in {sent[r], Append(sent[r], Failure)}
      /\ out[r] \o chan[r] \o held[r] # sent[r] => Broken(r)
    BY DEF RequestInv, Carried, Whole, Broken
<1>4. InOrder(out[r], chan[r], held[r], sent[r])
    <2>1. Splits(out[r], chan[r], held[r], sent[r])
        BY <1>1, <1>2, <1>3 DEF Splits
    <2> QED BY <2>1, PartsInOrder
<1> HIDE DEF Failure
<1>5. ASSUME chan[r] # <<>>, Len(chan[r]) = 1 PROVE Tail(chan[r]) = <<>>
    <2>1. Tail(chan[r]) \in Seq(Chunks) /\ Len(Tail(chan[r])) = 0
        BY <1>1, <1>5, HeadTailProperties
    <2> QED BY <2>1, EmptySeq
<1>6. Broken(r) /\ held[r] = <<>> => reader[r] = "closed"
    BY DEF Broken
<1> QED BY <1>3, <1>4, <1>5, <1>6 DEF InOrder

\* The report and the tool of a chunk that is passed on.
LEMMA ReportsGrow ==
    ASSUME NEW s \in Seq(Chunks), NEW c \in Chunks, NEW t
    PROVE  /\ {i \in DOMAIN Append(s, c) : Append(s, c)[i].usage > 0}
                = {i \in DOMAIN s : s[i].usage > 0}
                    \cup (IF c.usage > 0 THEN {Len(s) + 1} ELSE {})
           /\ {i \in DOMAIN Append(s, c) : Append(s, c)[i].tool = t}
                = {i \in DOMAIN s : s[i].tool = t} \cup (IF c.tool = t THEN {Len(s) + 1} ELSE {})
<1>1. /\ Len(Append(s, c)) = Len(s) + 1 /\ Len(s) \in Nat
      /\ \A i \in 1..Len(s) : Append(s, c)[i] = s[i]
      /\ Append(s, c)[Len(s) + 1] = c
    BY AppendProperties, LenProperties
<1>2. DOMAIN s = 1..Len(s) /\ DOMAIN Append(s, c) = 1..(Len(s) + 1)
    BY <1>1, AppendProperties, LenProperties
<1>3. DOMAIN Append(s, c) = DOMAIN s \cup {Len(s) + 1} /\ Len(s) + 1 \notin DOMAIN s
    BY <1>1, <1>2
<1> DEFINE a == Append(s, c)
           k == Len(s) + 1
<1>4. a[k] = c /\ \A i \in DOMAIN s : a[i] = s[i]
    BY <1>1, <1>2
<1> HIDE DEF a
<1>5. {i \in DOMAIN s \cup {k} : a[i].usage > 0}
        = {i \in DOMAIN s : s[i].usage > 0} \cup (IF c.usage > 0 THEN {k} ELSE {})
    BY <1>4
<1>6. {i \in DOMAIN s \cup {k} : a[i].tool = t}
        = {i \in DOMAIN s : s[i].tool = t} \cup (IF c.tool = t THEN {k} ELSE {})
    BY <1>4
<1> QED BY <1>3, <1>5, <1>6 DEF a

\* A fragment of the call t comes when all before it have begun.
LEMMA NoCallIsSkipped ==
    ASSUME StreamTypes, NEW r \in Requests, RequestInv(r), Merged(r),
           NEW k \in 1..Len(sent[r]), k = Len(out[r]) + 1
    PROVE  sent[r][k].tool <= Len(calls[r]) + 1
<1> DEFINE tool == sent[r][k].tool
           l == Len(calls[r])
<1>1. tool \in Nat /\ l \in Nat /\ Len(out[r]) \in Nat
    <2>1. sent[r][k] \in Chunks
        BY ElementOfSeq DEF StreamTypes
    <2> QED BY <2>1, LenProperties DEF Chunks, StreamTypes
<1>2. \A t \in 1..(tool - 1) : \E j \in 1..(k - 1) : sent[r][j].tool = t
    BY DEF RequestInv, Numbered
<1>3. \A j \in 1..(k - 1) : j \in DOMAIN out[r] /\ out[r][j] = sent[r][j]
    <2>1. \A j \in 1..Len(out[r]) : out[r][j] = sent[r][j]
        BY NextInOrder
    <2>2. DOMAIN out[r] = 1..Len(out[r])
        BY LenProperties DEF StreamTypes
    <2> QED BY <1>1, <2>1, <2>2
<1>4. \A t \in 1..(tool - 1) : Fragments(r, t) # {}
    BY <1>2, <1>3 DEF Fragments
<1>5. \A t \in Nat \ {0} : t > l => Fragments(r, t) = {}
    BY DEF Merged
<1>6. tool <= l + 1
    <2> HIDE DEF tool, l
    <2>1. SUFFICES ASSUME tool > l + 1 PROVE FALSE
        BY <1>1
    <2>2. l + 1 \in 1..(tool - 1) /\ l + 1 \in Nat \ {0} /\ l + 1 > l
        BY <1>1, <2>1
    <2> QED BY <1>4, <1>5, <2>2
<1> QED BY <1>6

\* mergeToolCalls keeps the numbers of each call together and in order.
LEMMA MergeAdds ==
    ASSUME NEW acc \in Seq(Seq(Nat)), NEW c \in Chunks, c.tool <= Len(acc) + 1
    PROVE  /\ MergeToolCalls(acc, c) \in Seq(Seq(Nat))
           /\ Len(MergeToolCalls(acc, c)) = IF c.tool = Len(acc) + 1 THEN Len(acc) + 1 ELSE Len(acc)
           /\ \A t \in 1..Len(acc) : t # c.tool => MergeToolCalls(acc, c)[t] = acc[t]
           /\ c.tool \in 1..Len(acc) => MergeToolCalls(acc, c)[c.tool] = Append(acc[c.tool], c.n)
           /\ c.tool = Len(acc) + 1 => MergeToolCalls(acc, c)[c.tool] = <<c.n>>
<1> DEFINE l == Len(acc)
           t == c.tool
           n == c.n
<1>1. t \in Nat /\ n \in Nat /\ l \in Nat /\ acc \in [1..l -> Seq(Nat)]
    BY LenProperties DEF Chunks
<1>2. MergeToolCalls(acc, c) = IF t = 0 THEN acc
                               ELSE IF t <= l THEN [acc EXCEPT ![t] = Append(@, n)]
                               ELSE Append(acc, <<n>>)
    BY DEF MergeToolCalls
<1>3. \A q \in Seq(Nat) : Append(q, n) \in Seq(Nat)
    BY <1>1, AppendProperties
<1>4. <<n>> \in Seq(Nat)
    BY <1>1
<1>5. t <= l + 1
    OBVIOUS
<1> HIDE DEF l, t, n
<1>6. CASE t = 0
    <2>1. MergeToolCalls(acc, c) = acc
        BY <1>2, <1>6
    <2>2. t \notin 1..l /\ t # l + 1
        BY <1>1, <1>6
    <2> QED BY <2>1, <2>2 DEF l, t, n
<1>7. CASE t \in 1..l
    <2> DEFINE new == [acc EXCEPT ![t] = Append(@, n)]
    <2>1. acc[t] \in Seq(Nat)
        BY <1>1, <1>7
    <2>2. new \in [1..l -> Seq(Nat)]
        BY <1>1, <1>3, <1>7, <2>1
    <2>3. new \in Seq(Seq(Nat)) /\ Len(new) = l
        BY <1>1, <2>2, SeqDef, LenProperties
    <2>4. new[t] = Append(acc[t], n) /\ \A i \in 1..l : i # t => new[i] = acc[i]
        BY <1>1, <1>7
    <2>5. MergeToolCalls(acc, c) = new
        BY <1>1, <1>2, <1>7
    <2> HIDE DEF new
    <2>6. t # l + 1 /\ t \in 1..l
        BY <1>1, <1>7
    <2>7. /\ MergeToolCalls(acc, c) \in Seq(Seq(Nat)) /\ Len(MergeToolCalls(acc, c)) = l
          /\ \A i \in 1..l : i # t => MergeToolCalls(acc, c)[i] = acc[i]
          /\ MergeToolCalls(acc, c)[t] = Append(acc[t], n)
        BY <2>3, <2>4, <2>5
    <2> QED BY <2>6, <2>7 DEF l, t, n
<1>8. CASE t = l + 1
    <2> DEFINE new == Append(acc, <<n>>)
    <2>1. new \in Seq(Seq(Nat)) /\ Len(new) = l + 1 /\ new[l + 1] = <<n>>
          /\ \A i \in 1..l : new[i] = acc[i]
        BY <1>1, <1>4, AppendProperties DEF l
    <2>2. MergeToolCalls(acc, c) = new
        BY <1>1, <1>2, <1>8
    <2> HIDE DEF new
    <2> QED BY <1>1, <1>8, <2>1, <2>2 DEF l, t, n
<1> QED BY <1>1, <1>5, <1>6, <1>7, <1>8

\* The numbers of a call stay increasing when a later one is added.
LEMMA StillIncreasing ==
    ASSUME NEW q \in Seq(Nat), NEW n \in Nat, \A i \in DOMAIN q : q[i] < n,
           \A i, j \in DOMAIN q : i < j => q[i] < q[j]
    PROVE  /\ ToSet(Append(q, n)) = ToSet(q) \cup {n}
           /\ \A i, j \in DOMAIN Append(q, n) : i < j => Append(q, n)[i] < Append(q, n)[j]
<1> DEFINE a == Append(q, n)
           l == Len(q)
<1>1. /\ DOMAIN q = 1..l /\ DOMAIN a = 1..(l + 1) /\ l \in Nat
      /\ \A i \in 1..l : a[i] = q[i]
      /\ a[l + 1] = n
    BY AppendProperties, LenProperties
<1>2. \A i \in 1..l : q[i] < n
    BY <1>1
<1>3. \A i, j \in 1..l : i < j => q[i] < q[j]
    BY <1>1
<1> HIDE DEF a, l
<1>4. {a[i] : i \in DOMAIN a} = {q[i] : i \in DOMAIN q} \cup {n}
    BY <1>1
<1>5. \A i, j \in 1..(l + 1) : i < j => a[i] < a[j]
    BY <1>1, <1>2, <1>3
<1> QED BY <1>1, <1>4, <1>5 DEF ToSet, a

\* Only the failure's receipt and the end of the channel are left to the consumer.
LEMMA ReceiveKeeps ==
    ASSUME StreamTypes, NEW r \in Requests, RequestInv(r), Receive(r)
    PROVE  Keeps(r)
<1>0. PICK c : c = Head(chan[r])
    OBVIOUS
<1> DEFINE k == Len(out[r]) + 1
           merged == IF r \in Streaming THEN calls[r] ELSE MergeToolCalls(calls[r], c)
           report == IF c.usage > 0 THEN c.usage ELSE usage[r]
<1>1. /\ at[r] = "open" /\ chan[r] # <<>> /\ c # Failure
      /\ out' = [out EXCEPT ![r] = Append(@, c)]
      /\ usage' = [usage EXCEPT ![r] = report]
      /\ calls' = [calls EXCEPT ![r] = merged]
      /\ chan' = [chan EXCEPT ![r] = Tail(@)]
      /\ UNCHANGED <<at, attempt, outcome, budget, gone, sent, reader, held, charged, end>>
    BY <1>0 DEF Receive, connecting, StreamTypes
<1>2. /\ out[r] \in Seq(Chunks) /\ chan[r] \in Seq(Chunks) /\ held[r] \in Seq(Chunks)
      /\ sent[r] \in Seq(Chunks) /\ calls[r] \in Seq(Seq(Nat)) /\ usage[r] \in Nat
    BY DEF StreamTypes
<1>3. c \in Chunks /\ Tail(chan[r]) \in Seq(Chunks) /\ Append(out[r], c) \in Seq(Chunks)
      /\ Len(Tail(chan[r])) = Len(chan[r]) - 1 /\ Len(chan[r]) \in Nat
    BY <1>0, <1>1, <1>2, HeadTailProperties, AppendProperties, LenProperties
<1>4. c = sent[r][k] /\ k \in 1..Len(sent[r]) /\ \A i \in 1..(k - 1) : out[r][i] = sent[r][i]
    BY <1>0, <1>1, <1>2, NextInOrder, LenProperties
<1>5. c.n = k /\ c.usage \in {0, k} /\ c.tool \in Nat /\ k \in Nat \ {0}
    <2>1. sent[r][k].n = k /\ sent[r][k].usage \in {0, k}
        BY <1>4 DEF RequestInv, Numbered
    <2>2. c.tool \in Nat
        BY <1>3 DEF Chunks
    <2>3. k \in Nat \ {0}
        BY <1>2, LenProperties
    <2> HIDE DEF k
    <2> QED BY <1>4, <2>1, <2>2, <2>3
<1>6. end[r] = "running" /\ charged[r] = <<>> /\ reader[r] # "off"
    BY <1>1 DEF RequestInv, PhaseFits
<1>7. r \notin Streaming => merged = MergeToolCalls(calls[r], c) /\ c.tool <= Len(calls[r]) + 1
    BY <1>4, NoCallIsSkipped DEF RequestInv, Consumed
<1>8. merged \in Seq(Seq(Nat))
    BY <1>2, <1>3, <1>7, MergeAdds
<1>9. report \in Nat /\ report \in 0..Len(sent[r])
    BY <1>2, <1>4, <1>5, LenProperties DEF RequestInv, Consumed
<1> HIDE DEF merged, report
<1>10. StreamTypes'
    BY <1>1, <1>3, <1>8, <1>9 DEF StreamTypes
<1>11. /\ out'[r] = Append(out[r], c) /\ chan'[r] = Tail(chan[r]) /\ calls'[r] = merged
       /\ usage'[r] = report
       /\ UNCHANGED <<at[r], attempt[r], outcome[r], gone[r], sent[r], reader[r], held[r],
                      charged[r], end[r]>>
    BY <1>1 DEF StreamTypes
<1>12. PhaseFits(r)' /\ Settled(r)'
    BY <1>1, <1>6, <1>11 DEF PhaseFits, Settled, Kinds
<1>13. Numbered(r)'
    <2>1. Len(chan'[r]) <= Buffer
        BY <1>3, <1>11, StreamAssumption DEF RequestInv, Numbered
    <2>2. UNCHANGED <<sent[r], attempt[r]>>
        BY <1>11
    <2> QED BY <2>1, <2>2 DEF RequestInv, Numbered
<1>14. Carried(r)'
    <2>1. Append(out[r], Head(chan[r])) \o Tail(chan[r]) \o held[r] = out[r] \o chan[r] \o held[r]
        BY <1>1, <1>2, ReceiveMoves
    <2>2. out'[r] \o chan'[r] \o held'[r] = out[r] \o chan[r] \o held[r]
        BY <1>0, <1>11, <2>1
    <2>3. Whole(r)' \/ Broken(r)'
        BY <1>11, <2>2 DEF RequestInv, Carried, Whole, Broken
    <2>4. Len(out'[r]) <= Len(sent'[r])
        BY <1>2, <1>3, <1>4, <1>11, AppendProperties
    <2> QED BY <1>11, <2>3, <2>4 DEF RequestInv, Carried
<1>15. /\ Reports(r)' = Reports(r) \cup (IF c.usage > 0 THEN {k} ELSE {})
       /\ \A t : Fragments(r, t)' = Fragments(r, t) \cup (IF c.tool = t THEN {k} ELSE {})
    BY <1>2, <1>3, <1>11, ReportsGrow DEF Reports, Fragments
<1>16. /\ out'[r][k] = c /\ \A i \in DOMAIN out[r] : out'[r][i] = out[r][i] /\ i < k /\ i \in Nat
    BY <1>2, <1>3, <1>11, AppendProperties, LenProperties
<1>17. LastReport(r, usage[r])
    BY DEF RequestInv, Consumed
<1>18. LastReport(r, usage[r])'
    <2>0. Reports(r) \subseteq DOMAIN out[r]
        BY DEF Reports
    <2>1. CASE c.usage > 0
        <3>1. k \in Reports(r)' /\ \A j \in Reports(r)' : j <= k
            BY <1>5, <1>15, <1>16, <2>0, <2>1
        <3>2. usage'[r] = out'[r][k].usage
            BY <1>11, <1>16, <2>1 DEF report
        <3> QED BY <3>1, <3>2 DEF LastReport
    <2>2. CASE ~(c.usage > 0)
        <3>1. Reports(r)' = Reports(r) /\ usage'[r] = usage[r]
            BY <1>11, <1>15, <2>2 DEF report
        <3>2. \A i \in Reports(r) : out'[r][i].usage = out[r][i].usage
            BY <1>16, <2>0
        <3> QED BY <1>17, <3>1, <3>2 DEF LastReport
    <2> QED BY <2>1, <2>2
<1>19. ASSUME r \notin Streaming PROVE Merged(r)'
    <2> DEFINE l == Len(calls[r])
    <2>1. Merged(r)
        BY <1>19 DEF RequestInv, Consumed
    <2>2. /\ Len(merged) = IF c.tool = l + 1 THEN l + 1 ELSE l
          /\ \A t \in 1..l : t # c.tool => merged[t] = calls[r][t]
          /\ c.tool \in 1..l => merged[c.tool] = Append(calls[r][c.tool], k)
          /\ c.tool = l + 1 => merged[c.tool] = <<k>>
        <3>1. merged = MergeToolCalls(calls[r], c) /\ c.tool <= Len(calls[r]) + 1 /\ c.n = k
            BY <1>5, <1>7, <1>19
        <3>2. /\ Len(merged) = IF c.tool = l + 1 THEN l + 1 ELSE l
              /\ \A t \in 1..l : t # c.tool => merged[t] = calls[r][t]
              /\ c.tool \in 1..l => merged[c.tool] = Append(calls[r][c.tool], c.n)
              /\ c.tool = l + 1 => merged[c.tool] = <<c.n>>
            BY <1>2, <1>3, <3>1, MergeAdds
        <3> HIDE DEF l, k
        <3> QED BY <3>1, <3>2
    <2>3. l \in Nat /\ c.tool <= l + 1
        BY <1>2, <1>7, <1>19, LenProperties
    <2> HIDE DEF l
    <2>4. Len(calls'[r]) = Len(merged) /\ calls'[r] = merged
        BY <1>11
    <2>5. ASSUME NEW t \in 1..l, t # c.tool PROVE MergedCall(r, t)'
        <3>1. MergedCall(r, t)
            BY <2>1 DEF Merged, l
        <3>2. calls'[r][t] = calls[r][t]
            BY <2>2, <2>4, <2>5
        <3>3. Fragments(r, t)' = Fragments(r, t)
            BY <1>15, <2>5
        <3> QED BY <3>1, <3>2, <3>3 DEF MergedCall
    <2>6. ASSUME c.tool \in 1..l PROVE MergedCall(r, c.tool)'
        <3> DEFINE q == calls[r][c.tool]
        <3>1. MergedCall(r, c.tool)
            BY <2>1, <2>6 DEF Merged, l
        <3>2. q \in Seq(Nat)
            BY <1>2, <2>6, ElementOfSeq DEF l
        <3>3. \A i \in DOMAIN q : q[i] < k
            <4>1. \A i \in DOMAIN q : q[i] \in Fragments(r, c.tool)
                BY <3>1 DEF MergedCall, ToSet
            <4> QED BY <1>16, <4>1 DEF Fragments
        <3>4. \A i, j \in DOMAIN q : i < j => q[i] < q[j]
            BY <3>1 DEF MergedCall
        <3>5. /\ ToSet(Append(q, k)) = ToSet(q) \cup {k}
              /\ \A i, j \in DOMAIN Append(q, k) : i < j => Append(q, k)[i] < Append(q, k)[j]
            <4> HIDE DEF q, k
            <4> QED BY <1>5, <3>2, <3>3, <3>4, StillIncreasing
        <3>6. calls'[r][c.tool] = Append(q, k)
            BY <2>2, <2>4, <2>6
        <3>7. Fragments(r, c.tool)' = Fragments(r, c.tool) \cup {k}
            BY <1>11, <1>15
        <3>8. ToSet(q) = Fragments(r, c.tool)
            BY <3>1 DEF MergedCall
        <3> HIDE DEF q
        <3> QED BY <3>5, <3>6, <3>7, <3>8 DEF MergedCall
    <2>7. ASSUME c.tool = l + 1 PROVE MergedCall(r, c.tool)'
        <3>1. Fragments(r, c.tool) = {}
            BY <2>1, <2>3, <2>7 DEF Merged, l
        <3>2. Fragments(r, c.tool)' = {k}
            BY <1>15, <3>1
        <3>3. calls'[r][c.tool] = <<k>>
            BY <2>2, <2>4, <2>7
        <3>4. ToSet(<<k>>) = {k} /\ \A i, j \in DOMAIN <<k>> : i < j => <<k>>[i] < <<k>>[j]
            BY DEF ToSet
        <3> QED BY <3>2, <3>3, <3>4 DEF MergedCall
    <2>8. ASSUME NEW t \in 1..Len(calls'[r]) PROVE MergedCall(r, t)'
        <3>1. t \in 1..l \/ (t = l + 1 /\ c.tool = l + 1)
            BY <2>2, <2>3, <2>4
        <3>2. CASE t # c.tool
            BY <2>5, <3>1, <3>2
        <3>3. CASE t = c.tool
            BY <2>6, <2>7, <3>1, <3>3
        <3> QED BY <3>2, <3>3
    <2>9. ASSUME NEW t \in Nat \ {0}, t > Len(calls'[r]) PROVE Fragments(r, t)' = {}
        <3>1. t > l /\ c.tool # t
            BY <1>5, <2>2, <2>3, <2>4, <2>9
        <3>2. Fragments(r, t) = {}
            BY <2>1, <3>1 DEF Merged, l
        <3> QED BY <1>15, <3>1, <3>2
    <2> QED BY <2>8, <2>9 DEF Merged
<1>20. Consumed(r)'
    BY <1>9, <1>11, <1>18, <1>19 DEF Consumed
<1>21. \A q \in Requests \ {r} : UNCHANGED Here(q)
    BY <1>1 DEF StreamTypes, Here
<1> QED BY <1>10, <1>12, <1>13, <1>14, <1>20, <1>21 DEF Keeps, RequestInv

\* The failure comes last: nothing is lost behind it.
LEMMA ReceiveFailureKeeps ==
    ASSUME StreamTypes, NEW r \in Requests, RequestInv(r), ReceiveFailure(r)
    PROVE  Keeps(r)
<1>1. /\ at[r] = "open" /\ chan[r] # <<>> /\ Head(chan[r]) = Failure
      /\ chan' = [chan EXCEPT ![r] = Tail(@)]
      /\ at' = [at EXCEPT ![r] = "ended"] /\ end' = [end EXCEPT ![r] = "broken"]
      /\ UNCHANGED <<attempt, outcome, budget, gone, sent, reader, held, out, calls, usage, charged>>
    BY DEF ReceiveFailure, GiveUp, connecting, answer
<1>2. out[r] = sent[r] /\ Tail(chan[r]) = <<>> /\ held[r] = <<>> /\ reader[r] = "closed"
    BY <1>1, NextInOrder
<1>3. \A S : <<>> \in Seq(S)
    BY EmptySeq
<1>4. StreamTypes'
    BY <1>1, <1>2, <1>3 DEF StreamTypes
<1>5. /\ at'[r] = "ended" /\ end'[r] = "broken" /\ chan'[r] = <<>>
      /\ UNCHANGED <<attempt[r], outcome[r], gone[r], sent[r], reader[r], held[r], out[r],
                     calls[r], usage[r], charged[r]>>
    BY <1>1, <1>2 DEF StreamTypes
<1>6. charged[r] = <<>>
    BY <1>1 DEF RequestInv, PhaseFits
<1>7. PhaseFits(r)' /\ Settled(r)'
    BY <1>2, <1>5, <1>6 DEF PhaseFits, Settled, Kinds
<1>8. Numbered(r)'
    <2>1. Len(chan'[r]) <= Buffer
        BY <1>5, StreamAssumption
    <2>2. UNCHANGED <<sent[r], attempt[r]>>
        BY <1>5
    <2> QED BY <2>1, <2>2 DEF RequestInv, Numbered
<1>9. Carried(r)'
    <2>1. out[r] \o <<>> \o <<>> = out[r]
        BY ThreeParts, EmptySeq DEF StreamTypes
    <2>2. Whole(r)'
        BY <1>2, <1>5, <2>1 DEF Whole
    <2>3. Len(out[r]) <= Len(sent[r])
        BY DEF RequestInv, Carried
    <2> QED BY <1>2, <1>5, <2>2, <2>3 DEF Carried
<1>10. Consumed(r)'
    BY <1>5 DEF RequestInv, Consumed, LastReport, Reports, Merged, MergedCall, Fragments
<1>11. \A q \in Requests \ {r} : UNCHANGED Here(q)
    BY <1>1 DEF StreamTypes, Here
<1> QED BY <1>4, <1>7, <1>8, <1>9, <1>10, <1>11 DEF Keeps, RequestInv

\* A channel that is closed and empty has been passed on whole.
LEMMA FinishKeeps ==
    ASSUME StreamTypes, NEW r \in Requests, RequestInv(r), Finish(r)
    PROVE  Keeps(r)
<1>1. /\ at[r] = "open" /\ chan[r] = <<>> /\ reader[r] = "closed"
      /\ at' = [at EXCEPT ![r] = "ended"] /\ end' = [end EXCEPT ![r] = "done"]
      /\ charged' = IF usage[r] = 0 THEN charged
                    ELSE [charged EXCEPT ![r] = Append(@, usage[r])]
      /\ UNCHANGED <<attempt, outcome, budget, gone, sent, reader, held, chan, out, calls, usage>>
    BY DEF Finish, GiveUp, connecting, reading
<1>2. charged[r] = <<>> /\ held[r] = <<>>
    BY <1>1 DEF RequestInv, PhaseFits, Carried
<1>3. usage[r] \in Nat /\ <<>> \in Seq(Nat) /\ <<usage[r]>> \in Seq(Nat)
      /\ Append(<<>>, usage[r]) = <<usage[r]>>
    BY EmptySeq DEF StreamTypes
<1>4. /\ charged' \in [Requests -> Seq(Nat)]
      /\ charged'[r] = IF usage[r] = 0 THEN <<>> ELSE <<usage[r]>>
      /\ \A q \in Requests \ {r} : charged'[q] = charged[q]
    BY <1>1, <1>2, <1>3 DEF StreamTypes
<1>5. StreamTypes'
    BY <1>1, <1>4 DEF StreamTypes
<1>6. /\ at'[r] = "ended" /\ end'[r] = "done"
      /\ UNCHANGED <<attempt[r], outcome[r], gone[r], sent[r], reader[r], held[r], chan[r], out[r],
                     calls[r], usage[r]>>
    BY <1>1 DEF StreamTypes
<1>7. out[r] = sent[r]
    <2>1. out[r] \o chan[r] \o held[r] = out[r]
        BY <1>1, <1>2, ThreeParts, EmptySeq DEF StreamTypes
    <2>2. CASE Whole(r)
        BY <2>1, <2>2 DEF Whole
    <2>3. CASE Broken(r)
        <3>1. out[r] = Append(sent[r], Failure)
            BY <2>1, <2>3 DEF Broken
        <3>2. Len(Append(sent[r], Failure)) = Len(sent[r]) + 1 /\ Len(sent[r]) \in Nat
            BY FailureIsChunk, AppendProperties, LenProperties DEF StreamTypes
        <3>3. Len(out[r]) <= Len(sent[r])
            BY DEF RequestInv, Carried
        <3> QED BY <3>1, <3>2, <3>3
    <2> QED BY <2>2, <2>3 DEF RequestInv, Carried
<1>8. PhaseFits(r)' /\ Settled(r)'
    BY <1>1, <1>4, <1>6, <1>7 DEF PhaseFits, Settled, Kinds
<1>9. Numbered(r)'
    BY <1>6 DEF RequestInv, Numbered
<1>10. Carried(r)'
    BY <1>6 DEF RequestInv, Carried, Whole, Broken
<1>11. Consumed(r)'
    BY <1>6 DEF RequestInv, Consumed, LastReport, Reports, Merged, MergedCall, Fragments
<1>12. \A q \in Requests \ {r} : UNCHANGED Here(q)
    BY <1>1, <1>4 DEF StreamTypes, Here
<1> QED BY <1>5, <1>8, <1>9, <1>10, <1>11, <1>12 DEF Keeps, RequestInv

\* A disconnected client keeps every request in its place.
LEMMA DisconnectKeeps ==
    ASSUME StreamTypes, NEW r \in Requests, RequestInv(r), Disconnect(r)
    PROVE  Keeps(r)
<1>1. /\ at[r] # "ended" /\ gone' = [gone EXCEPT ![r] = TRUE]
      /\ UNCHANGED <<at, attempt, outcome, budget, sent, reader, held, chan, out, calls, usage,
                     charged, end>>
    BY DEF Disconnect, connecting, reading, answer
<1>2. StreamTypes'
    BY <1>1 DEF StreamTypes
<1>3. end[r] = "running"
    BY <1>1 DEF RequestInv, PhaseFits
<1>4. UNCHANGED <<at[r], attempt[r], outcome[r], sent[r], reader[r], held[r], chan[r], out[r],
                  calls[r], usage[r], charged[r], end[r]>>
    BY <1>1
<1>5. PhaseFits(r)' /\ Settled(r)'
    <2>1. PhaseFits(r)'
        BY <1>4 DEF RequestInv, PhaseFits, Fresh
    <2>2. Settled(r)'
        BY <1>3, <1>4 DEF Settled, Kinds
    <2> QED BY <2>1, <2>2
<1>6. Numbered(r)' /\ Carried(r)'
    <2>1. Numbered(r)'
        BY <1>4 DEF RequestInv, Numbered
    <2>2. Carried(r)'
        BY <1>4 DEF RequestInv, Carried, Whole, Broken
    <2> QED BY <2>1, <2>2
<1>7. Consumed(r)'
    BY <1>4 DEF RequestInv, Consumed, LastReport, Reports, Merged, MergedCall, Fragments
<1>8. \A q \in Requests \ {r} : UNCHANGED Here(q)
    BY <1>1 DEF StreamTypes, Here
<1> QED BY <1>2, <1>5, <1>6, <1>7, <1>8 DEF Keeps, RequestInv

\* Every step keeps StreamInv.
LEMMA NextStreamInv == StreamInv /\ [StreamNext]_streamVars => StreamInv'
<1> SUFFICES ASSUME StreamInv, [StreamNext]_streamVars PROVE StreamInv'
    OBVIOUS
<1>1. StreamTypes /\ \A q \in Requests : RequestInv(q)
    BY DEF StreamInv
<1>2. ASSUME NEW r \in Requests, Keeps(r) PROVE StreamInv'
    <2>1. ASSUME NEW q \in Requests \ {r} PROVE RequestInv(q)'
        BY <1>1, <1>2, Untouched DEF Keeps
    <2> QED BY <1>2, <2>1 DEF Keeps, StreamInv
<1>3. ASSUME UNCHANGED <<at, attempt, outcome, gone, sent, reader, held, chan, out, calls, usage,
                         charged, end>>, budget' \in 0..Budget
      PROVE  StreamInv'
    <2>1. StreamTypes'
        BY <1>1, <1>3 DEF StreamTypes
    <2>2. ASSUME NEW q \in Requests PROVE RequestInv(q)'
        <3>1. UNCHANGED Here(q)
            BY <1>3 DEF Here
        <3> QED BY <1>1, <3>1, Untouched
    <2> QED BY <2>1, <2>2 DEF StreamInv
<1>4. ASSUME NEW r \in Requests, Connect(r) PROVE Keeps(r)
    BY <1>1, <1>4, ConnectedKeeps, AttemptFailsKeeps, BackoffKeeps DEF Connect
<1>5. ASSUME NEW r \in Requests, Reading(r) PROVE Keeps(r)
    BY <1>1, <1>5, ReadChunkKeeps, ReadGarbageKeeps, ReadEndKeeps, SendKeeps DEF Reading
<1>6. ASSUME NEW r \in Requests, Consuming(r) PROVE Keeps(r)
    BY <1>1, <1>6, ReceiveKeeps, ReceiveFailureKeeps, FinishKeeps DEF Consuming
<1>7. ASSUME NEW r \in Requests, Disconnect(r) PROVE Keeps(r)
    BY <1>1, <1>7, DisconnectKeeps
<1>8. CASE Refill
    <2>1. budget' \in 0..Budget
        BY <1>1, <1>8, StreamAssumption DEF Refill, StreamTypes
    <2> QED BY <1>3, <1>8, <2>1 DEF Refill, reading, answer
<1>9. CASE UNCHANGED streamVars
    BY <1>1, <1>3, <1>9 DEF streamVars, connecting, reading, answer, StreamTypes
<1> QED BY <1>2, <1>4, <1>5, <1>6, <1>7, <1>8, <1>9 DEF StreamNext

(***************************************************************************)
(* The invariant of the streams: whatever the requests do to one another   *)
(* (they share the retry budget), each is carried on as described above.   *)
(***************************************************************************)
THEOREM StreamInvariantHolds == StreamSpec => []StreamInv
<1>1. StreamInit => StreamInv
    BY InitStreamInv
<1>2. StreamInv /\ [StreamNext]_streamVars => StreamInv'
    BY NextStreamInv
<1> QED BY <1>1, <1>2, PTL DEF StreamSpec

(***************************************************************************)
(* GenerateStream, readSSEStream and the consumers of the channel: what    *)
(* was passed on, what is in the channel and what the reader holds is what *)
(* one attempt of the upstream sent, and each tool call has all of its     *)
(* fragments in their order; for any buffer, retries and statuses.         *)
(***************************************************************************)
THEOREM StreamDeliveredOnce == StreamSpec => []DeliveredOnceInOrder
<1>1. ASSUME StreamInv PROVE DeliveredOnceInOrder
    <2>1. StreamTypes /\ \A r \in Requests : RequestInv(r)
        BY <1>1 DEF StreamInv
    <2>2. ASSUME NEW r \in Requests
          PROVE  /\ Len(chan[r]) <= Buffer /\ Len(sent[r]) <= MaxChunks[r]
                 /\ usage[r] \in 0..MaxChunks[r]
        <3>1. Len(chan[r]) <= Buffer /\ Len(sent[r]) <= MaxChunks[r] /\ usage[r] \in 0..Len(sent[r])
            BY <2>1 DEF RequestInv, Numbered, Consumed
        <3>2. Len(sent[r]) \in Nat /\ MaxChunks[r] \in Nat
            BY <2>1, StreamAssumption, LenProperties DEF StreamTypes
        <3> QED BY <3>1, <3>2
    <2>3. StreamTypeOK
        BY <2>1, <2>2 DEF StreamTypes, StreamTypeOK
    <2>4. ASSUME NEW r \in Requests
          PROVE  /\ out[r] \o chan[r] \o held[r] \in {sent[r], Append(sent[r], Failure)}
                 /\ \A i \in DOMAIN sent[r] : sent[r][i].n = i /\ sent[r][i].from = sent[r][1].from
        <3>1. Whole(r) \/ Broken(r)
            BY <2>1 DEF RequestInv, Carried
        <3>2. \A i \in 1..Len(sent[r]) : sent[r][i].n = i /\ sent[r][i].from = attempt[r]
            BY <2>1 DEF RequestInv, Numbered
        <3>3. DOMAIN sent[r] = 1..Len(sent[r]) /\ Len(sent[r]) \in Nat
            BY <2>1, LenProperties DEF StreamTypes
        <3>4. \A i \in DOMAIN sent[r] : 1 \in DOMAIN sent[r]
            BY <3>3
        <3> QED BY <3>1, <3>2, <3>3, <3>4 DEF Whole, Broken
    <2>5. ASSUME NEW r \in Requests \ Streaming, NEW t \in 1..MaxCalls
          PROVE  IF Fragments(r, t) = {} THEN t > Len(calls[r])
                 ELSE /\ t <= Len(calls[r]) /\ ToSet(calls[r][t]) = Fragments(r, t)
                      /\ \A i, j \in DOMAIN calls[r][t] : i < j => calls[r][t][i] < calls[r][t][j]
        <3>1. Merged(r)
            BY <2>1 DEF RequestInv, Consumed
        <3>2. Len(calls[r]) \in Nat /\ t \in Nat \ {0}
            BY <2>1, StreamAssumption, LenProperties DEF StreamTypes
        <3>3. CASE t <= Len(calls[r])
            <4>1. MergedCall(r, t)
                BY <3>1, <3>2, <3>3 DEF Merged
            <4> QED BY <3>3, <4>1 DEF MergedCall
        <3>4. CASE t > Len(calls[r])
            BY <3>1, <3>2, <3>4 DEF Merged
        <3> QED BY <3>2, <3>3, <3>4
    <2> QED BY <2>3, <2>4, <2>5 DEF DeliveredOnceInOrder, Fragments
<1> QED BY <1>1, StreamInvariantHolds, PTL

(***************************************************************************)
(* handleStream and generateViaStream record an answer once and only if it *)
(* came to its end whole; GenerateStream fails a request before its first  *)
(* chunk only when its attempts are used up or its client left, and the    *)
(* kind it reports says whether another provider is worth trying.          *)
(***************************************************************************)
THEOREM StreamEndsAsItWent == StreamSpec => []EndsAsItWent
<1>1. ASSUME StreamInv PROVE EndsAsItWent
    <2> SUFFICES ASSUME NEW r \in Requests
                 PROVE  CASE end[r] = "running" -> charged[r] = <<>>
                          [] end[r] = "broken"  -> charged[r] = <<>>
                          [] end[r] = "done"    ->
                               /\ out[r] = sent[r]
                               /\ Reports(r) = {} => charged[r] = <<>>
                               /\ Reports(r) # {} =>
                                    \E i \in Reports(r) : /\ \A j \in Reports(r) : j <= i
                                                          /\ charged[r] = <<out[r][i].usage>>
                          [] OTHER -> /\ out[r] = <<>> /\ charged[r] = <<>>
                                      /\ attempt[r] = MaxRetries \/ gone[r]
                                      /\ Retryable(end[r]) <=>
                                           \/ outcome[r].error \in {"timeout", "refused"}
                                           \/ outcome[r].status \in {429} \cup 500..599
        BY DEF EndsAsItWent, Reports
    <2>1. StreamTypes /\ RequestInv(r)
        BY <1>1 DEF StreamInv
    <2>2. CASE end[r] \in {"running", "broken"}
        BY <2>1, <2>2 DEF RequestInv, PhaseFits
    <2>3. CASE end[r] = "done"
        <3>1. out[r] = sent[r] /\ charged[r] = IF usage[r] = 0 THEN <<>> ELSE <<usage[r]>>
            BY <2>1, <2>3 DEF RequestInv, Settled
        <3>2. LastReport(r, usage[r])
            BY <2>1 DEF RequestInv, Consumed
        <3>3. ASSUME Reports(r) # {}
              PROVE  \E i \in Reports(r) : /\ \A j \in Reports(r) : j <= i
                                           /\ charged[r] = <<out[r][i].usage>>
            <4>1. PICK i \in Reports(r) : (\A j \in Reports(r) : j <= i) /\ usage[r] = out[r][i].usage
                BY <3>2, <3>3 DEF LastReport
            <4>2. usage[r] # 0
                BY <4>1 DEF Reports
            <4> QED BY <3>1, <4>1, <4>2
        <3> QED BY <2>3, <3>1, <3>2, <3>3 DEF LastReport
    <2>4. CASE end[r] \in Kinds
        <3>1. Fresh(r)
            BY <2>1, <2>4 DEF RequestInv, PhaseFits
        <3>2. /\ attempt[r] = MaxRetries \/ gone[r]
              /\ Retryable(end[r]) <=> \/ outcome[r].error \in {"timeout", "refused"}
                                       \/ outcome[r].status \in {429} \cup 500..599
            BY <2>1, <2>4 DEF RequestInv, Settled
        <3>3. end[r] \notin {"running", "broken", "done"}
            BY <2>4 DEF Kinds
        <3> HIDE DEF Kinds
        <3> QED BY <3>1, <3>2, <3>3 DEF Fresh
    <2>5. end[r] \in {"running", "broken", "done"} \cup Kinds
        BY <2>1 DEF StreamTypes
    <2> QED BY <2>2, <2>3, <2>4, <2>5
<1> QED BY <1>1, StreamInvariantHolds, PTL

(***************************************************************************)
(* The goroutine that reads the upstream never outlives its consumer: no   *)
(* end of a request leaves it blocked on the channel, whatever the size of *)
(* the buffer, the retries and the moment the client leaves.               *)
(***************************************************************************)
THEOREM ReaderIsNeverAbandoned == StreamSpec => []ReaderHasAConsumer
<1>1. ASSUME StreamInv, NEW r \in Requests
      PROVE  /\ reader[r] \in {"reading", "sending"} => at[r] = "open"
             /\ at[r] = "ended" => chan[r] = <<>> /\ held[r] = <<>>
    <2>1. /\ at[r] \in {"connecting", "waiting", "open", "ended"}
          /\ end[r] \in {"running", "broken", "done"} \cup Kinds
          /\ PhaseFits(r) /\ Carried(r)
        BY <1>1 DEF StreamInv, StreamTypes, RequestInv
    <2>2. CASE at[r] \in {"connecting", "waiting"}
        BY <2>1, <2>2 DEF PhaseFits, Fresh
    <2>3. CASE at[r] = "ended"
        <3>1. end[r] \in {"broken", "done"} \cup Kinds
            BY <2>1, <2>3 DEF PhaseFits
        <3>2. CASE end[r] \in {"broken", "done"}
            BY <2>1, <2>3, <3>2 DEF PhaseFits, Carried
        <3>3. CASE end[r] \in Kinds
            BY <2>1, <2>3, <3>3 DEF PhaseFits, Fresh
        <3> QED BY <3>1, <3>2, <3>3
    <2> QED BY <2>1, <2>2, <2>3
<1>2. StreamInv => ReaderHasAConsumer
    BY <1>1 DEF ReaderHasAConsumer
<1> QED BY <1>2, StreamInvariantHolds, PTL
=============================================================================
