----------------------------- MODULE MCHotReload -----------------------------
(* Two providers, two edits and one admin request; key 3 cannot be built.  *)
EXTENDS HotReload
CONSTANTS p, q
MCNames == {p, q}
MCBodies == {[key |-> 1, rest |-> "default"], [key |-> 2, rest |-> "timeout"],
             [key |-> 3, rest |-> "default"]}
=============================================================================
