-------------------------- MODULE MCChatCompletion --------------------------
(* Three concurrent requests over two providers and two tenants.           *)
EXTENDS ChatCompletion, TLC
CONSTANTS r1, r2, r3, p1, p2, t1, t2
MCRequests == {r1, r2, r3}
MCProviders == {p1, p2}
MCTenants == {t1, t2}
Ask(p, t, prompt, context) ==
    [provider |-> p, tenant |-> t, prompt |-> prompt, context |-> context]
\* Same prompt from two tenants, and to two providers.
MixedContents == {Ask(p1, t1, "a", "x"), Ask(p1, t2, "a", "x"),
                  Ask(p2, t1, "a", "x")}
\* One question asked by everybody.
OneContent == {Ask(p1, t1, "a", "x")}
Symmetry == Permutations(MCRequests)
=============================================================================
