--------------------------- MODULE ChatCompletion ---------------------------
(***************************************************************************)
(* server/api.go, handleChatCompletions without streaming: the daily quota *)
(* check, the response cache, the coalescer around the upstream call, and  *)
(* the degradation chain.  Composes Coalescer (one Do call per request)    *)
(* with the cache, the cost ledger and the upstream.                       *)
(*                                                                         *)
(* What a request asks for is a record:                                    *)
(*   provider, tenant   where it is routed, and its API key                *)
(*   prompt             messages, model and sampling parameters            *)
(*   context            the X-Context-Hash header                          *)
(***************************************************************************)
EXTENDS Naturals, FiniteSets

CONSTANTS
    Requests, Contents, Providers, Tenants,
    Quota,        \* DM_GATEWAY_KEY_QUOTA_DAILY in calls; 0 = no quota
    MayExpire,    \* whether cache entries run out of time during a run
    MayBreak      \* whether an upstream stream may end before [DONE]

VARIABLES
    req,      \* what each request asks for
    at,       \* where its handler is
    got,      \* the upstream response an executor holds while it runs fn
    out,      \* what the client was answered
    cache,    \* cache key -> response, or NoEntry
    ledger,   \* tenant -> tokens recorded by CostTracker (one per call)
    metered,  \* history: tenant -> upstream responses that carried usage
    asked,    \* history: providers each request called itself
    todo,     \* candidates the degradation loop has not tried
    gone      \* whether the client has disconnected

coVars == <<req, at, got, out, cache, ledger, metered, asked, todo, gone>>

VARIABLES pending, result, closed, pc, key, joined, ret
doVars == <<pending, result, closed, pc, key, joined, ret>>
vars == <<coVars, doVars>>

\* Faulty variants, here and below, for checking that the properties can fail:
\* a cache key without the tenant.
KeyWithoutTenant(q) == [provider |-> q.provider, prompt |-> q.prompt,
                        context |-> q.context]

\* HashKey(requestCacheKey(req), provider|model|apiKey|X-Context-Hash).
CacheKey(q) == [provider |-> q.provider, tenant |-> q.tenant,
                prompt |-> q.prompt, context |-> q.context]
CacheKeys == {CacheKey(q) : q \in Contents}

NoEntry == [kind |-> "none"]
TimeoutError == [kind |-> "timeout"]
Errors == [kind : {"retryable", "fatal"}]
Responses == [kind : {"ok"}, by : Requests, from : Providers, whole : BOOLEAN]

ASSUME ChatAssumption ==
    /\ Contents \subseteq [provider : Providers, tenant : Tenants,
                           prompt : {q.prompt : q \in Contents},
                           context : {q.context : q \in Contents}]
    /\ Quota \in Nat /\ MayExpire \in BOOLEAN /\ MayBreak \in BOOLEAN
    /\ IsFiniteSet(Requests) /\ "nobody" \notin Requests

Co == INSTANCE Coalescer WITH
    Callers <- Requests, Keys <- CacheKeys, Outcomes <- Responses \cup Errors,
    TimedOut <- TimeoutError, Nobody <- "nobody", Nothing <- NoEntry,
    FnMayPanic <- FALSE

Init ==
    /\ req \in [Requests -> Contents]
    /\ at = [r \in Requests |-> "arrived"]
    /\ got = [r \in Requests |-> NoEntry]
    /\ out = [r \in Requests |-> NoEntry]
    /\ cache = [k \in CacheKeys |-> NoEntry]
    /\ ledger = [t \in Tenants |-> 0]
    /\ metered = [t \in Tenants |-> 0]
    /\ asked = [r \in Requests |-> {}]
    /\ todo = [r \in Requests |-> {}]
    /\ gone = [r \in Requests |-> FALSE]
    /\ Co!Init
    /\ key = [r \in Requests |-> CacheKey(req[r])]

Goto(r, place) == at' = [at EXCEPT ![r] = place]
Answer(r, v) == Goto(r, "answered") /\ out' = [out EXCEPT ![r] = v]

\* DailyTokens(key) >= quota answers 429 BUDGET_EXCEEDED.
CheckQuota(r) ==
    /\ at[r] = "arrived"
    /\ \/ /\ Quota > 0 /\ ledger[req[r].tenant] >= Quota
          /\ Answer(r, [kind |-> "budget"])
       \/ /\ Quota = 0 \/ ledger[req[r].tenant] < Quota
          /\ Goto(r, "lookup")
          /\ UNCHANGED out
    /\ UNCHANGED <<req, got, cache, ledger, metered, asked, todo, gone, doVars>>

Lookup(r) ==
    /\ at[r] = "lookup"
    /\ \/ cache[key[r]] # NoEntry /\ Answer(r, cache[key[r]])
       \/ cache[key[r]] = NoEntry /\ Goto(r, "do") /\ UNCHANGED out
    /\ UNCHANGED <<req, got, cache, ledger, metered, asked, todo, gone, doVars>>

WaitInDo(r) ==
    /\ at[r] = "do"
    /\ Co!Join(r)
    /\ UNCHANGED coVars

\* The caller executes fn: manager.Generate on the provider of its request.
ExecuteInDo(r) ==
    /\ at[r] = "do"
    /\ Co!Lead(r)
    /\ Goto(r, "upstream")
    /\ asked' = [asked EXCEPT ![r] = @ \cup {req[r].provider}]
    /\ UNCHANGED <<req, got, out, cache, ledger, metered, todo, gone>>

\* A response comes back; one that has usage is recorded before it is stored.
\* A stream that breaks off (client gone, connection lost, client.Timeout) is
\* no error: readSSEStream only closes the channel, and what was received so
\* far, with the usage if that was reported already, is the response.
UpstreamAnswers(r) ==
    /\ at[r] = "upstream"
    /\ \E whole \in BOOLEAN, usage \in BOOLEAN :
        /\ ~whole => MayBreak
        /\ got' = [got EXCEPT ![r] =
               [kind |-> "ok", by |-> r, from |-> req[r].provider, whole |-> whole]]
        /\ Goto(r, IF usage THEN "record" ELSE "store")
        /\ metered' = IF usage THEN [metered EXCEPT ![req[r].tenant] = @ + 1]
                               ELSE metered
    /\ UNCHANGED <<req, out, cache, ledger, asked, todo, gone, doVars>>

\* fn returns the error.  Network errors, 5xx, 429 and deadlines are retryable;
\* the cancellation that follows a disconnect and the local refusals ("rate
\* limit exceeded", "circuit open") are not, but a retryable failure may come
\* just before the cancellation.
UpstreamFails(r) ==
    /\ at[r] = "upstream"
    /\ \E e \in Errors : Co!FnReturns(r, e)
    /\ Goto(r, "do")
    /\ UNCHANGED <<req, got, out, cache, ledger, metered, asked, todo, gone>>

RecordUsage(r) ==
    /\ at[r] = "record"
    /\ ledger' = [ledger EXCEPT ![req[r].tenant] = @ + 1]
    /\ Goto(r, "store")
    /\ UNCHANGED <<req, got, out, cache, metered, asked, todo, gone, doVars>>

\* cache.SetWithTTL, which may evict another entry, and fn returns.
StoreResponse(r) ==
    /\ at[r] = "store"
    /\ \E evicted \in SUBSET (CacheKeys \ {key[r]}) :
        /\ Cardinality(evicted) <= 1
        /\ cache' = [k \in CacheKeys |->
                       IF k = key[r] THEN got[r]
                       ELSE IF k \in evicted THEN NoEntry ELSE cache[k]]
    /\ Co!FnReturns(r, got[r])
    /\ Goto(r, "do")
    /\ UNCHANGED <<req, got, out, ledger, metered, asked, todo, gone>>

\* The rest of Do: hand over, clean up, wake, time out.
FinishDo(r) ==
    /\ at[r] = "do"
    /\ \/ Co!AssignResult(r) \/ Co!CloseDone(r) \/ Co!Cleanup(r)
       \/ Co!Wake(r) \/ Co!WaitTimesOut(r)
    /\ UNCHANGED coVars

\* Faulty: a waiter charges the response it shares; the timeout of the wait is
\* not answered.
AfterDoCharges(r) ==
    /\ at[r] = "do" /\ pc[r] = "done"
    /\ Answer(r, ret[r])
    /\ ledger' = [ledger EXCEPT ![req[r].tenant] =
                     IF ret[r].kind = "ok" /\ joined[r] # r THEN @ + 1 ELSE @]
    /\ UNCHANGED <<req, got, cache, metered, asked, todo, gone, doVars>>

AfterDoForgetsTimeout(r) ==
    /\ at[r] = "do" /\ pc[r] = "done" /\ ret[r] # TimeoutError
    /\ Answer(r, ret[r])
    /\ UNCHANGED <<req, got, cache, ledger, metered, asked, todo, gone, doVars>>

\* Do has returned: answer the response, or degrade, or answer the error.
AfterDo(r) ==
    /\ at[r] = "do"
    /\ pc[r] = "done"
    /\ \/ /\ ret[r].kind = "retryable"
          /\ Goto(r, "degrade")
          /\ todo' = [todo EXCEPT ![r] = Providers \ {req[r].provider}]
          /\ UNCHANGED out
       \/ /\ ret[r].kind # "retryable"
          /\ Answer(r, ret[r])
          /\ UNCHANGED todo
    /\ UNCHANGED <<req, got, cache, ledger, metered, asked, gone, doVars>>

\* Faulty: the degraded response is cached under the request's key.
TryCandidateCached(r, p) ==
    /\ at[r] = "degrade" /\ p \in todo[r]
    /\ LET v == [kind |-> "ok", by |-> r, from |-> p, whole |-> TRUE] IN
         Answer(r, v) /\ cache' = [cache EXCEPT ![key[r]] = v]
    /\ UNCHANGED <<req, got, ledger, metered, asked, todo, gone, doVars>>

\* gracefulDegradation tries the next candidate, whatever the kind of error
\* of the one before; what it gets is recorded and answered, not cached.  With
\* the client gone every further call fails on the canceled context.
TryCandidate(r, p) ==
    /\ at[r] = "degrade"
    /\ p \in todo[r]
    /\ asked' = [asked EXCEPT ![r] = @ \cup {p}]
    /\ todo' = [todo EXCEPT ![r] = @ \ {p}]
    /\ \/ \E whole \in BOOLEAN, usage \in BOOLEAN :
            /\ ~gone[r]
            /\ ~whole => MayBreak
            /\ Answer(r, [kind |-> "ok", by |-> r, from |-> p, whole |-> whole])
            /\ IF usage
               THEN /\ metered' = [metered EXCEPT ![req[r].tenant] = @ + 1]
                    /\ ledger' = [ledger EXCEPT ![req[r].tenant] = @ + 1]
               ELSE UNCHANGED <<metered, ledger>>
       \/ UNCHANGED <<at, out, metered, ledger>>
    /\ UNCHANGED <<req, got, cache, gone, doVars>>

NoCandidateLeft(r) ==
    /\ at[r] = "degrade"
    /\ todo[r] = {}
    /\ Answer(r, ret[r])
    /\ UNCHANGED <<req, got, cache, ledger, metered, asked, todo, gone, doVars>>

\* The client closes the connection, which cancels r.Context().  It may do so
\* at any time, but only the upstream calls look at the context.
Disconnect(r) ==
    /\ at[r] \in {"upstream", "degrade"} /\ ~gone[r]
    /\ gone' = [gone EXCEPT ![r] = TRUE]
    /\ UNCHANGED <<req, at, got, out, cache, ledger, metered, asked, todo, doVars>>

\* An entry passes its ExpiresAt: Get misses, evictExpired deletes it.
Expire(k) ==
    /\ MayExpire
    /\ cache[k] # NoEntry
    /\ cache' = [cache EXCEPT ![k] = NoEntry]
    /\ UNCHANGED <<req, at, got, out, ledger, metered, asked, todo, gone, doVars>>

Handle(r) ==
    \/ CheckQuota(r) \/ Lookup(r) \/ WaitInDo(r) \/ ExecuteInDo(r)
    \/ UpstreamAnswers(r) \/ UpstreamFails(r) \/ RecordUsage(r)
    \/ StoreResponse(r) \/ FinishDo(r) \/ AfterDo(r) \/ NoCandidateLeft(r)
    \/ \E p \in Providers : TryCandidate(r, p)

Next ==
    \/ \E r \in Requests : Handle(r) \/ Disconnect(r)
    \/ \E k \in CacheKeys : Expire(k)

Spec == Init /\ [][Next]_vars

\* Every handler goroutine keeps running: the upstream client and the wait in
\* Do are bounded by timers.  Clients need not disconnect, entries not expire.
FairSpec == Spec /\ \A r \in Requests : WF_vars(Handle(r))
-----------------------------------------------------------------------------
Places == {"arrived", "lookup", "do", "upstream", "record", "store",
           "degrade", "answered"}

TypeOK ==
    /\ req \in [Requests -> Contents]
    /\ at \in [Requests -> Places]
    /\ got \in [Requests -> Responses \cup {NoEntry}]
    /\ out \in [Requests -> Responses \cup Errors
                            \cup [kind : {"none", "timeout", "budget"}]]
    /\ cache \in [CacheKeys -> Responses \cup {NoEntry}]
    /\ ledger \in [Tenants -> Nat] /\ metered \in [Tenants -> Nat]
    /\ asked \in [Requests -> SUBSET Providers]
    /\ todo \in [Requests -> SUBSET Providers]
    /\ gone \in [Requests -> BOOLEAN]
    /\ Co!TypeOK

Answered(r) == at[r] = "answered" /\ out[r].kind = "ok"

(***************************************************************************)
(* "避免跨租户/跨模型/跨 Provider 误命中" (api.go:567): a response that     *)
(* another request paid for, taken over from the cache or from the         *)
(* coalescer, was produced for the same tenant, prompt and context by the  *)
(* provider the request is routed to; only the request's own degradation   *)
(* brings an answer of another provider.                                   *)
(***************************************************************************)
AnswersMatchTheRequest ==
    /\ TypeOK
    /\ \A r \in Requests : Answered(r) =>
         /\ \A field \in {"provider", "tenant", "prompt", "context"} :
               req[out[r].by][field] = req[r][field]
         /\ out[r].from # req[r].provider => out[r].by = r

(***************************************************************************)
(* The cache never holds, under a provider's key, the response that        *)
(* another provider gave during degradation, and a response is cached only *)
(* once its usage is on the ledger.                                        *)
(***************************************************************************)
CacheHoldsRecordedPrimaries ==
    \A k \in CacheKeys : cache[k] # NoEntry =>
        /\ cache[k].from = k.provider
        /\ CacheKey(req[cache[k].by]) = k
        /\ at[cache[k].by] # "record"

(***************************************************************************)
(* Each upstream response that carried usage is charged to its tenant      *)
(* exactly once, however many requests share it, degraded or not.          *)
(***************************************************************************)
ChargedOnce ==
    \A t \in Tenants :
        ledger[t] + Cardinality({r \in Requests :
                        at[r] = "record" /\ req[r].tenant = t}) = metered[t]

(***************************************************************************)
(* Every request is answered, also when its executor's client disconnects, *)
(* the upstream fails or it has to wait for another request.               *)
(***************************************************************************)
EveryRequestIsAnswered ==
    \A r \in Requests : at[r] = "lookup" ~> at[r] = "answered"
=============================================================================
