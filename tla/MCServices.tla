----------------------------- MODULE MCServices -----------------------------
(***************************************************************************)
(* Four services of the handlers that share no state: the usage ledger,    *)
(* the warm-up, the SLO monitor and the degradation chain.  A behaviour is *)
(* one of a single service; part says which.                               *)
(***************************************************************************)
EXTENDS CostLedger, WarmUp, SloMonitor, DegradationOrder, TLC

CONSTANTS r1, r2, k1, k2, m1, m2, f1, f2, f3
MCRequests == {r1, r2}
MCKeys == {k1, k2}
MCModels == {m1, m2}
MCFingerprints == {f1, f2, f3}
MCWeight == <<1, 0, 2>>
MCPriority == <<1, 2, 1>>
MCPrice == <<1, 3, 0>>
Symmetry == Permutations(MCRequests) \cup Permutations(MCKeys) \cup Permutations(MCModels)

VARIABLE part

MCInit ==
    /\ part \in {"ledger", "warmup", "slo", "order"}
    /\ Init /\ WarmInit /\ SloInit /\ OrderInit

MCNext ==
    /\ UNCHANGED part
    /\ \/ part = "ledger" /\ Next /\ UNCHANGED <<warmVars, sloVars, orderVars>>
       \/ part = "warmup" /\ WarmNext /\ UNCHANGED <<vars, sloVars, orderVars>>
       \/ part = "slo" /\ SloNext /\ UNCHANGED <<vars, warmVars, orderVars>>
       \/ part = "order" /\ OrderNext /\ UNCHANGED <<vars, warmVars, sloVars>>

MCSpec == MCInit /\ [][MCNext]_<<part, vars, warmVars, sloVars, orderVars>>
=============================================================================
