---------------------------- MODULE TokenBuckets ----------------------------
(***************************************************************************)
(* What the gateway's rate limits promise, without last-fill times, maps   *)
(* and locks: every bucket gains its rate at each tick up to its capacity, *)
(* and a request takes its share from all buckets of one gate together or  *)
(* from none.                                                              *)
(***************************************************************************)
EXTENDS Integers

CONSTANTS Buckets,
          Gates,   \* the sets of buckets that are charged together
          Costs    \* of a request, in requests and in tokens

VARIABLES capacity, rate,    \* of each bucket, in requests and in tokens
          level              \* what is left in it

vars == <<capacity, rate, level>>

Least(x, y) == IF x < y THEN x ELSE y
Within(b) == \A i \in {1, 2} : level[b][i] \in 0..capacity[b][i]

Init == \A b \in Buckets : Within(b)

\* A limit of 0 is no limit and is not charged.
Take(gate, cost) ==
    /\ \A b \in gate, i \in {1, 2} : capacity[b][i] > 0 => level[b][i] >= cost[i]
    /\ level' = [b \in Buckets |-> [i \in {1, 2} |->
                   IF b \in gate /\ capacity[b][i] > 0 THEN level[b][i] - cost[i]
                                                       ELSE level[b][i]]]
    /\ UNCHANGED <<capacity, rate>>

Tick ==
    /\ level' = [b \in Buckets |-> [i \in {1, 2} |->
                   Least(capacity[b][i], level[b][i] + rate[b][i])]]
    /\ UNCHANGED <<capacity, rate>>

\* An administrator sets or clears a limit; the bucket is new.
Replace(b) ==
    /\ level'[b] = capacity'[b]
    /\ \A other \in Buckets \ {b} :
         /\ level'[other] = level[other]
         /\ capacity'[other] = capacity[other]
         /\ rate'[other] = rate[other]

Next ==
    \/ \E gate \in Gates, cost \in Costs : Take(gate, cost)
    \/ Tick
    \/ \E b \in Buckets : Replace(b)

Spec == Init /\ [][Next]_vars
=============================================================================
