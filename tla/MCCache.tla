------------------------------ MODULE MCCache ------------------------------
(***************************************************************************)
(* Package cache: the coalescer, with three goroutines and two keys, and   *)
(* the response cache, where three keys compete for two places with a      *)
(* normal and a hot TTL.  They share no state; a behaviour is one of       *)
(* either, and part says which.                                            *)
(***************************************************************************)
EXTENDS Coalescer, ResponseCache

CONSTANTS c1, c2, c3, k1, k2, ok, err, e1, e2, e3
MCCallers == {c1, c2, c3}
MCKeys == {k1, k2}
MCOutcomes == {ok, err}
MCCacheKeys == {e1, e2, e3}

VARIABLE part

MCInit == part \in {"coalescer", "cache"} /\ Init /\ CacheInit

MCNext ==
    /\ UNCHANGED part
    /\ \/ part = "coalescer" /\ Next /\ UNCHANGED cacheVars
       \/ part = "cache" /\ CacheNext /\ UNCHANGED vars

MCSpec == MCInit /\ [][MCNext]_<<part, vars, cacheVars>>

FairMCSpec ==
    /\ MCSpec
    /\ part = "coalescer" => Fairness
    /\ part = "cache" => CacheFairness
=============================================================================
