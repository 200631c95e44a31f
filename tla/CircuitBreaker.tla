--------------------------- MODULE CircuitBreaker ---------------------------
(***************************************************************************)
(* provider/circuit.go: the sliding-window breaker, with the calls of      *)
(* Manager.Generate that ask Allow, run for a while and Record their       *)
(* outcome.  Both run under the breaker's mutex and are one action each.   *)
(* Rates are compared by cross-multiplication of the counts.               *)
(*                                                                         *)
(* Time is what Record and evaluate see of it: how long the breaker has    *)
(* been open, up to Wait (WaitDurationInOpen).  MaxTotal bounds the number *)
(* of outcomes of a slice that are told apart.                             *)
(***************************************************************************)
EXTENDS Naturals, FiniteSets, Folds

CONSTANTS
    Callers,      \* concurrent calls of Manager.Generate
    NumBuckets, MinCalls, Permits, Wait, MaxTotal,
    StableAt,     \* outcomes in the window of a stable provider (20)
    TimerRuns     \* whether something calls AdvanceBucket (in the gateway
                  \* nothing does)

ASSUME BreakerAssumption ==
    /\ NumBuckets \in Nat \ {0} /\ MinCalls \in Nat \ {0}
    /\ Permits \in Nat \ {0}        \* HalfOpenPermits[0]
    /\ Wait \in Nat \ {0} /\ MaxTotal \in Nat /\ StableAt \in Nat
    /\ TimerRuns \in BOOLEAN
    /\ ~TimerRuns => MaxTotal >= 5 /\ MaxTotal >= MinCalls

VARIABLES
    state,        \* "closed", "open" or "half-open"
    buckets,      \* counts per time slice
    currentIdx,
    openFor,      \* time since openedAt, up to Wait
    halfOpenOK,
    call,         \* what each caller is doing
    healthy,      \* whether the upstream has recovered for good
    seen          \* history: outcomes recorded since the breaker last closed,
                  \* up to 3

vars == <<state, buckets, currentIdx, openFor, halfOpenOK, call, healthy, seen>>

Indices == 0..(NumBuckets - 1)
Empty == [total |-> 0, failures |-> 0, slow |-> 0]
Idle == [admitted |-> "no", good |-> FALSE]
Active(c) == call[c].admitted # "no"
NoBuckets == [i \in Indices |-> Empty]

\* FailureRateThreshold and SlowCallRateThreshold default to 0.5; the sensitive
\* and the tolerant setting are 0.4 and 0.6.
AtLeast(n, tenths, total) == 10 * n >= tenths * total

\* evaluate's verdict on a closed breaker with these buckets.
Trips(b, idx) ==
    LET Sum(f(_)) == MapThenFoldSet(LAMBDA x, y : x + y, 0, f,
                                    LAMBDA S : CHOOSE x \in S : TRUE, Indices)
        total == Sum(LAMBDA i : b[i].total)
        failures == Sum(LAMBDA i : b[i].failures)
        slow == Sum(LAMBDA i : b[i].slow)
        prev == (idx + NumBuckets - 1) % NumBuckets
        recentTotal == b[idx].total + b[prev].total
        recentFail == b[idx].failures + b[prev].failures
        unstable == recentTotal > 0 /\ 100 * recentFail > 15 * recentTotal
        stable == /\ recentTotal > 0 /\ 100 * recentFail < 3 * recentTotal
                  /\ total >= StableAt
        minCalls == IF unstable THEN 3 ELSE IF stable THEN 5 ELSE MinCalls
        tenths == IF unstable THEN 4 ELSE IF stable THEN 6 ELSE 5
    IN  /\ total >= minCalls
        /\ AtLeast(failures, tenths, total) \/ AtLeast(slow, tenths, total)

Init ==
    /\ state = "closed"
    /\ buckets = NoBuckets
    /\ currentIdx = 0
    /\ openFor = 0
    /\ halfOpenOK = 0
    /\ call = [c \in Callers |-> Idle]
    /\ healthy = FALSE
    /\ seen = 0

\* transitionTo(CircuitOpen): the bucket index stays where it is.
Opened == /\ state' = "open" /\ openFor' = 0
          /\ buckets' = NoBuckets /\ UNCHANGED <<currentIdx, halfOpenOK>>

\* Faulty variants, for checking that the properties can fail: evaluate on the
\* counts before the new outcome, half-open one step early or never.
EvaluateClosedBefore(b) ==
    \/ Trips(buckets, currentIdx) /\ Opened
    \/ /\ ~Trips(buckets, currentIdx)
       /\ buckets' = b
       /\ UNCHANGED <<state, currentIdx, openFor, halfOpenOK>>

EvaluateOpenEarly(b) ==
    /\ buckets' = b
    /\ \/ openFor + 1 >= Wait /\ state' = "half-open" /\ halfOpenOK' = 0
       \/ openFor + 1 < Wait /\ UNCHANGED <<state, halfOpenOK>>
    /\ UNCHANGED <<currentIdx, openFor>>

EvaluateOpenNever(b) ==
    buckets' = b /\ UNCHANGED <<state, currentIdx, openFor, halfOpenOK>>

\* transitionTo(CircuitClosed).
Closed == /\ state' = "closed" /\ buckets' = NoBuckets /\ currentIdx' = 0
          /\ UNCHANGED openFor

\* evaluate on a closed breaker that holds the buckets b.
EvaluateClosed(b) ==
    \/ Trips(b, currentIdx) /\ Opened
    \/ /\ ~Trips(b, currentIdx)
       /\ buckets' = b
       /\ UNCHANGED <<state, currentIdx, openFor, halfOpenOK>>

\* evaluate on an open breaker: half-open once the wait is over.
EvaluateOpen(b) ==
    /\ buckets' = b
    /\ \/ /\ openFor = Wait
          /\ state' = "half-open"
          /\ halfOpenOK' = 0
       \/ /\ openFor < Wait
          /\ UNCHANGED <<state, halfOpenOK>>
    /\ UNCHANGED <<currentIdx, openFor>>

Evaluate ==
    \/ state = "closed" /\ EvaluateClosed(buckets)
    \/ state = "open" /\ EvaluateOpen(buckets)
    \/ /\ state = "half-open"
       /\ UNCHANGED <<state, buckets, currentIdx, openFor, halfOpenOK>>

\* Allow, on behalf of a caller: evaluate, then admit unless open.  A call is
\* marked with the state that admitted it and with the upstream's health.
Allow(c) ==
    /\ ~Active(c)
    /\ Evaluate
    /\ call' = IF state' = "open" THEN call
               ELSE [call EXCEPT ![c] =
                       [admitted |-> state', good |-> healthy]]
    /\ UNCHANGED <<healthy, seen>>

\* State, called by the routing and the dashboards.
State ==
    /\ Evaluate
    /\ UNCHANGED <<call, healthy, seen>>

\* Without the timer one slice takes every outcome.  Once MaxTotal of them have
\* not opened the breaker, which is more than the cold start, further fast successes
\* only lower both rates: they cannot open it either, and the counts stay.
Full == buckets[currentIdx].total >= MaxTotal
Diluting(ok, slow) == ~TimerRuns /\ ok /\ ~slow

Counted(ok, slow) ==
    IF Full THEN buckets
    ELSE [buckets EXCEPT ![currentIdx] =
        [total |-> @.total + 1,
         failures |-> @.failures + (IF ok THEN 0 ELSE 1),
         slow |-> @.slow + (IF slow THEN 1 ELSE 0)]]

\* Record: count the outcome, move a half-open breaker, evaluate.
Record(c, ok, slow) ==
    /\ Active(c)
    /\ call[c].good => ok /\ ~slow
    /\ Full => Diluting(ok, slow)
    /\ \/ state = "closed" /\ EvaluateClosed(Counted(ok, slow))
       \/ state = "open" /\ EvaluateOpen(Counted(ok, slow))
       \/ /\ state = "half-open" /\ ~ok
          /\ Opened
       \/ /\ state = "half-open" /\ ok
          /\ halfOpenOK' = halfOpenOK + 1
          /\ \/ halfOpenOK + 1 >= Permits /\ Closed
             \/ /\ halfOpenOK + 1 < Permits
                /\ buckets' = Counted(ok, slow)
                /\ UNCHANGED <<state, currentIdx, openFor>>
    /\ call' = [call EXCEPT ![c] = Idle]
    /\ seen' = IF state # "closed" /\ state' = "closed" THEN 0
               ELSE IF state = "closed" /\ seen < 3 THEN seen + 1 ELSE seen
    /\ UNCHANGED healthy

AdvanceBucket ==
    /\ TimerRuns
    /\ LET next == (currentIdx + 1) % NumBuckets IN
         /\ currentIdx' = next
         /\ buckets' = [buckets EXCEPT ![next] = Empty]
    /\ UNCHANGED <<state, openFor, halfOpenOK, call, healthy, seen>>

Tick ==
    /\ state = "open" /\ openFor < Wait
    /\ openFor' = openFor + 1
    /\ UNCHANGED <<state, buckets, currentIdx, halfOpenOK, call, healthy, seen>>

\* External: the upstream recovers; calls sent from now on succeed in time.
Recover ==
    /\ ~healthy
    /\ healthy' = TRUE
    /\ UNCHANGED <<state, buckets, currentIdx, openFor, halfOpenOK, call, seen>>

Outcome(c) == \E ok, slow \in BOOLEAN : Record(c, ok, slow)

Next ==
    \/ \E c \in Callers : Allow(c) \/ Outcome(c)
    \/ State \/ AdvanceBucket \/ Tick \/ Recover

Spec == Init /\ [][Next]_vars

\* Requests keep arriving, every call ends (client.Timeout) and time passes;
\* the upstream need not recover, and nothing has to call AdvanceBucket.
FairSpec == Spec /\ WF_vars(Tick)
            /\ \A c \in Callers : WF_vars(Allow(c)) /\ WF_vars(Outcome(c))
-----------------------------------------------------------------------------
Bucket == [total : 0..MaxTotal, failures : 0..MaxTotal, slow : 0..MaxTotal]

TypeOK ==
    /\ state \in {"closed", "open", "half-open"}
    /\ buckets \in [Indices -> Bucket]
    /\ currentIdx \in Indices
    /\ openFor \in 0..Wait
    /\ halfOpenOK \in 0..Permits
    /\ call \in [Callers -> [admitted : {"no", "closed", "half-open"},
                              good : BOOLEAN]]
    /\ healthy \in BOOLEAN
    /\ seen \in 0..3

(***************************************************************************)
(* The breaker opens when it should, and not before.  Record evaluates the *)
(* window with the outcome it has just counted: it never leaves a breaker  *)
(* closed on counts that should open it, whether the outcome is a failure, *)
(* a slow success or the success that closed a half-open breaker.  And     *)
(* from one closing to the next opening at least three outcomes are        *)
(* recorded; those that arrived while the breaker was open or half-open do *)
(* not count.                                                              *)
(***************************************************************************)
ClosedIsJustified ==
    [][/\ \A c \in Callers : Active(c) /\ call'[c] = Idle /\ state' = "closed"
            => ~Trips(buckets', currentIdx')
       /\ state = "closed" /\ state' = "open" => seen' >= 3]_vars

(***************************************************************************)
(* While the breaker is open, outcomes of calls that were admitted before  *)
(* still arrive: they neither cut the wait short nor start it again, and   *)
(* the only way out is half-open, after the whole wait.                    *)
(***************************************************************************)
OpenLastsItsWait ==
    [][state = "open" =>
         \/ state' = "open" /\ openFor' >= openFor
         \/ state' = "half-open" /\ openFor = Wait]_vars

(***************************************************************************)
(* Once the upstream has recovered the breaker ends up closed for good, as *)
(* long as requests keep arriving: neither the late outcomes of older      *)
(* calls nor the failures of the outage, which without the timer stay in   *)
(* the window until the breaker opens, keep it open or let it flap.        *)
(***************************************************************************)
RecoversWithTheUpstream == healthy ~> [](state = "closed")
=============================================================================
