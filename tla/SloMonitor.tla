----------------------------- MODULE SloMonitor -----------------------------
(***************************************************************************)
(* observability/slo.go, fed by MetricsMiddleware with every request: two  *)
(* rings of buckets that advance together with the time of the records,    *)
(* and an evaluation of the burn rate every EvalEvery records.  A rate is  *)
(* compared as a percentage of failures: threshold times budgeted rate.    *)
(***************************************************************************)
EXTENDS Integers, Sequences, FiniteSets, FiniteSetsExt

CONSTANTS
    ShortBuckets, LongBuckets,     \* 12 and 36
    BucketSize,                    \* 5 minutes
    EvalEvery,                     \* 30
    PagePercent, TicketPercent,    \* failures that page and that open a ticket
    MaxNow, MaxRecorded            \* bounds: the time and the records

ASSUME SloAssumption ==
    /\ ShortBuckets \in Nat \ {0} /\ LongBuckets \in Nat \ {0} /\ ShortBuckets <= LongBuckets
    /\ BucketSize \in Nat \ {0} /\ EvalEvery \in Nat \ {0}
    /\ 0 < TicketPercent /\ TicketPercent <= PagePercent
    /\ MaxNow \in Nat /\ MaxRecorded \in Nat

VARIABLES
    now, lastAdvance,
    short, long,           \* the rings: bucket -> successes and failures
    shortIdx, longIdx,
    recordsSince, lastAlert,
    alerts,                \* what onAlert was called with
    seen               \* history: the records, with their times

sloVars == <<now, lastAdvance, short, long, shortIdx, longIdx, recordsSince, lastAlert,
             alerts, seen>>

EmptyBucket == [successes |-> 0, failures |-> 0]
EmptyRing(n) == [b \in 0..(n - 1) |-> EmptyBucket]

SloInit ==
    /\ now = 0 /\ lastAdvance = 0
    /\ short = EmptyRing(ShortBuckets) /\ long = EmptyRing(LongBuckets)
    /\ shortIdx = 0 /\ longIdx = 0
    /\ recordsSince = 0 /\ lastAlert = "none" /\ alerts = <<>> /\ seen = <<>>

\* advance: whole buckets only, at most as many as the short ring has, and the rest
\* of the elapsed time is forgotten.
Steps == LET elapsed == (now - lastAdvance) \div BucketSize
         IN  IF elapsed > ShortBuckets THEN ShortBuckets ELSE elapsed

\* A faulty variant: the bucket that is entered keeps its counts.
AdvancedUncleared(ring, idx, n) == ring
Advanced(ring, idx, n) ==
    [b \in 0..(n - 1) |-> IF \E k \in 1..Steps : b = (idx + k) % n THEN EmptyBucket ELSE ring[b]]

Counted(ring, idx, ok) ==
    IF ok THEN [ring EXCEPT ![idx].successes = @ + 1] ELSE [ring EXCEPT ![idx].failures = @ + 1]

Failures(ring) == MapThenSumSet(LAMBDA b : ring[b].failures, DOMAIN ring)
Total(ring) == Failures(ring) + MapThenSumSet(LAMBDA b : ring[b].successes, DOMAIN ring)

\* The higher rate of the two windows counts; an empty window has rate 0.
Reaches(percent, s, l) ==
    \E ring \in {s, l} : Total(ring) > 0 /\ 100 * Failures(ring) >= percent * Total(ring)
Level(s, l) == IF Reaches(PagePercent, s, l) THEN "page"
               ELSE IF Reaches(TicketPercent, s, l) THEN "ticket" ELSE "none"

\* evaluate: onAlert is called when another level than before is reached.
Evaluate(s, l) ==
    /\ lastAlert' = Level(s, l)
    /\ alerts' = IF Level(s, l) \in {"none", lastAlert} THEN alerts ELSE Append(alerts, Level(s, l))

SloRecord(ok) ==
    /\ Len(seen) < MaxRecorded
    /\ shortIdx' = (shortIdx + Steps) % ShortBuckets /\ longIdx' = (longIdx + Steps) % LongBuckets
    /\ short' = Counted(Advanced(short, shortIdx, ShortBuckets), shortIdx', ok)
    /\ long' = Counted(Advanced(long, longIdx, LongBuckets), longIdx', ok)
    /\ lastAdvance' = IF now - lastAdvance < BucketSize THEN lastAdvance ELSE now
    /\ recordsSince' = (recordsSince + 1) % EvalEvery
    /\ IF recordsSince' = 0 THEN Evaluate(short', long') ELSE UNCHANGED <<lastAlert, alerts>>
    /\ seen' = Append(seen, [at |-> now, ok |-> ok])
    /\ UNCHANGED now

SloTick ==
    /\ now < MaxNow /\ now' = now + 1
    /\ UNCHANGED <<lastAdvance, short, long, shortIdx, longIdx, recordsSince, lastAlert,
                   alerts, seen>>

SloNext == SloTick \/ \E ok \in BOOLEAN : SloRecord(ok)

SloSpec == SloInit /\ [][SloNext]_sloVars
-----------------------------------------------------------------------------
\* The records younger than an age, and the longest time without one among them.
Since(age) == {r \in DOMAIN seen : now - seen[r].at < age}
Failed(rs) == {r \in rs : ~seen[r].ok}
Quiet(age) == \E r \in Since(age) : r > 1 /\ seen[r].at - seen[r - 1].at > ShortBuckets * BucketSize

(***************************************************************************)
(* When the windows are judged, however the records before were spread,    *)
(* a window of n buckets counts every record, and every failure, of the    *)
(* last n - 1 bucket sizes, and none that is older than 2n - 1 of them     *)
(* (advance forgets the rest of an elapsed time, so that a bucket lasts up *)
(* to two sizes).  The long window is only sure to forget if no pause      *)
(* was longer than the short one: advance steps over no more buckets than  *)
(* that.  And the last alert sent is the level reached, unless that is     *)
(* none.                                                                   *)
(***************************************************************************)
Holds(ring, n, forgets) ==
    LET young == Since((n - 1) * BucketSize + 1)
        all == Since((2 * n - 1) * BucketSize)
    IN  /\ Cardinality(young) <= Total(ring) /\ Cardinality(Failed(young)) <= Failures(ring)
        /\ forgets => /\ Total(ring) <= Cardinality(all)
                      /\ Failures(ring) <= Cardinality(Failed(all))

SloWindowsHold ==
    /\ seen # <<>> /\ seen[Len(seen)].at = now =>
         /\ Holds(short, ShortBuckets, TRUE)
         /\ Holds(long, LongBuckets, ~Quiet(MaxNow + 1))
    /\ lastAlert # "none" => alerts # <<>> /\ alerts[Len(alerts)] = lastAlert
=============================================================================
