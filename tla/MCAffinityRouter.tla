-------------------------- MODULE MCAffinityRouter --------------------------
(* Two requests with one of two keys, two providers, three virtual nodes  *)
(* each (the third is never on a ring of the code, see OnRing).           *)
EXTENDS AffinityRouter, TLC
CONSTANTS a, b, r1, r2
MCProviders == {a, b}
MCRequests == {r1, r2}
MCWalk == [k1 |-> <<<<a, 1>>, <<a, 0>>, <<b, 2>>, <<b, 0>>, <<a, 2>>, <<b, 1>>>>,
           k2 |-> <<<<b, 0>>, <<a, 2>>, <<b, 1>>, <<a, 1>>, <<a, 0>>, <<b, 2>>>>]
MCInitialWeight == [p \in MCProviders |-> 1]
MCFailing == {a}
MCPriority == [p \in MCProviders |-> IF p = a THEN 1 ELSE 0]
=============================================================================
