-------------------------- MODULE MCProviderManager --------------------------
(* Two callers and two editors on one provider name; a limited and an     *)
(* unlimited configuration, and one whose kind has no factory.             *)
EXTENDS ProviderManager, TLC
CONSTANTS c1, c2, e1, e2
MCCallers == {c1, c2}
MCEditors == {e1, e2}
MCConfigs == {"one", "unlimited", "unknown kind"}
MCMaxConcurrency == [c \in MCConfigs |-> IF c = "one" THEN 1 ELSE 0]
=============================================================================
