---------------------------- MODULE MCRateLimits ----------------------------
(* Two requests of one key and one model from one client, the second       *)
(* larger; the model's limit is changed once.                              *)
EXTENDS RateLimits, TLC
CONSTANTS r1, r2
MCRequests == {r1, r2}
MCAsk == [r \in MCRequests |->
            [client |-> "c", key |-> "k", model |-> "m",
             chars |-> IF r = r1 THEN 3 ELSE 5, messages |-> 1, maxTokens |-> 0]]
MCStartLimits == [b \in {"k", "m", "provider"} |->
                    CASE b = "k" -> <<1, 0>> [] b = "m" -> <<0, 2>> [] OTHER -> <<1, 3>>]
MCAdminLimits == {<<1, 1>>}
=============================================================================
