------------------------ MODULE ChatCompletionProofs ------------------------
(***************************************************************************)
(* Proofs about ChatCompletion for any sets of requests, contents,         *)
(* providers and tenants.  They are composed: the handler is shown to use  *)
(* Do as its specification allows, so that every theorem about Coalescer   *)
(* holds of it, and what an answer, a cache entry and a charge may be is   *)
(* proved on top of the coalescer's invariant.                             *)
(***************************************************************************)
EXTENDS ChatCompletion, FiniteSetTheorems, TLAPS

\* The theorems of CoalescerProofs, about the handler's calls of Do.
Do == INSTANCE CoalescerProofs WITH
    Callers <- Requests, Keys <- CacheKeys, Outcomes <- Responses \cup Errors,
    TimedOut <- TimeoutError, Nobody <- "nobody", Nothing <- NoEntry,
    FnMayPanic <- FALSE

\* The coalescer's assumption on its constants holds of the handler's values.
LEMMA ValuesDiffer == Do!CoalescerAssumption
BY ChatAssumption
   DEF Do!CoalescerAssumption, NoEntry, TimeoutError, Responses, Errors

\* What an executor holds is its own response, and it holds one when it comes
\* to record and to store it.  The key of Do is the key of the request.
ResponseInHand ==
    /\ req \in [Requests -> Contents] /\ at \in [Requests -> Places]
    /\ got \in [Requests -> Responses \cup {NoEntry}]
    /\ key = [r \in Requests |-> CacheKey(req[r])]
    /\ \A r \in Requests :
          /\ at[r] \in {"record", "store"} => got[r] # NoEntry
          /\ got[r] # NoEntry => got[r].by = r /\ got[r].from = req[r].provider

\* A step of Do leaves the key alone, whoever takes it.
DoStep(r) ==
    \/ Co!Join(r) \/ Co!Lead(r) \/ Co!AssignResult(r) \/ Co!CloseDone(r)
    \/ Co!Cleanup(r) \/ Co!Wake(r) \/ Co!WaitTimesOut(r)
    \/ \E v : Co!FnReturns(r, v)

\* The arguments of Do never change.
LEMMA KeyIsFixed == ASSUME NEW r \in Requests, DoStep(r) PROVE key' = key
BY DEF DoStep, Co!Join, Co!Lead, Co!AssignResult, Co!CloseDone, Co!Cleanup,
       Co!Wake, Co!WaitTimesOut, Co!FnReturns

\* A request that arrives has called nobody.
LEMMA InitInHand == Init => ResponseInHand
BY DEF Init, ResponseInHand, Places, NoEntry

\* Each step of a handler keeps the response in the hands of its executor.
LEMMA NextInHand == ResponseInHand /\ [Next]_vars => ResponseInHand'
<1> SUFFICES ASSUME ResponseInHand, [Next]_vars PROVE ResponseInHand'
    OBVIOUS
<1> USE DEF ResponseInHand, Places, Goto, Answer, doVars, coVars
<1>1. ASSUME NEW r \in Requests, CheckQuota(r) PROVE ResponseInHand'
    BY <1>1 DEF CheckQuota
<1>2. ASSUME NEW r \in Requests, Lookup(r) PROVE ResponseInHand'
    BY <1>2 DEF Lookup
<1>3. ASSUME NEW r \in Requests, WaitInDo(r) PROVE ResponseInHand'
    BY <1>3, KeyIsFixed DEF WaitInDo, DoStep
<1>4. ASSUME NEW r \in Requests, ExecuteInDo(r) PROVE ResponseInHand'
    BY <1>4, KeyIsFixed DEF ExecuteInDo, DoStep
<1>5. ASSUME NEW r \in Requests, UpstreamAnswers(r) PROVE ResponseInHand'
    <2>1. PICK whole \in BOOLEAN, usage \in BOOLEAN :
            /\ got' = [got EXCEPT ![r] = [kind |-> "ok", by |-> r,
                         from |-> req[r].provider, whole |-> whole]]
            /\ at' = [at EXCEPT ![r] = IF usage THEN "record" ELSE "store"]
        BY <1>5 DEF UpstreamAnswers
    <2> DEFINE v == [kind |-> "ok", by |-> r, from |-> req[r].provider, whole |-> whole]
    <2>2. req[r].provider \in Providers
        BY ChatAssumption
    <2>3. v \in Responses /\ v.by = r /\ v.from = req[r].provider /\ v # NoEntry
        BY <2>2 DEF Responses, NoEntry
    <2>4. /\ got' = [got EXCEPT ![r] = v] /\ req' = req /\ key' = key
          /\ \E p \in {"record", "store"} : at' = [at EXCEPT ![r] = p]
        BY <1>5, <2>1 DEF UpstreamAnswers
    <2> HIDE DEF v
    <2> QED BY <2>3, <2>4
<1>6. ASSUME NEW r \in Requests, UpstreamFails(r) PROVE ResponseInHand'
    BY <1>6, KeyIsFixed DEF UpstreamFails, DoStep
<1>7. ASSUME NEW r \in Requests, RecordUsage(r) PROVE ResponseInHand'
    BY <1>7 DEF RecordUsage
<1>8. ASSUME NEW r \in Requests, StoreResponse(r) PROVE ResponseInHand'
    BY <1>8, KeyIsFixed DEF StoreResponse, DoStep
<1>9. ASSUME NEW r \in Requests, FinishDo(r) PROVE ResponseInHand'
    BY <1>9, KeyIsFixed DEF FinishDo, DoStep
<1>10. ASSUME NEW r \in Requests, AfterDo(r) PROVE ResponseInHand'
    BY <1>10 DEF AfterDo
<1>11. ASSUME NEW r \in Requests, NoCandidateLeft(r) PROVE ResponseInHand'
    BY <1>11 DEF NoCandidateLeft
<1>12. ASSUME NEW r \in Requests, NEW p \in Providers, TryCandidate(r, p)
       PROVE ResponseInHand'
    BY <1>12 DEF TryCandidate
<1>13. ASSUME NEW r \in Requests, Disconnect(r) PROVE ResponseInHand'
    BY <1>13 DEF Disconnect
<1>14. ASSUME NEW k \in CacheKeys, Expire(k) PROVE ResponseInHand'
    BY <1>14 DEF Expire
<1>15. CASE UNCHANGED vars
    BY <1>15 DEF vars
<1> QED
    BY <1>1, <1>2, <1>3, <1>4, <1>5, <1>6, <1>7, <1>8, <1>9, <1>10, <1>11, <1>12,
       <1>13, <1>14, <1>15 DEF Next, Handle

\* Every state of the handlers.
LEMMA InHandHolds == Spec => []ResponseInHand
<1> QED BY InitInHand, NextInHand, PTL DEF Spec
-----------------------------------------------------------------------------
\* Each step of a handler is a step of one caller of Do, or none.
LEMMA NextUsesDo == ResponseInHand /\ [Next]_vars => [Co!Next]_(Co!vars)
<1> SUFFICES ASSUME ResponseInHand, [Next]_vars
             PROVE  Co!Next \/ UNCHANGED doVars
    BY DEF doVars, Co!vars
<1>1. ASSUME NEW r \in Requests, UpstreamFails(r) PROVE Co!Next
    BY <1>1 DEF UpstreamFails, Co!Next
<1>2. ASSUME NEW r \in Requests, StoreResponse(r) PROVE Co!Next
    <2>1. got[r] \in Responses \cup Errors
        BY <1>2 DEF StoreResponse, ResponseInHand
    <2> QED BY <1>2, <2>1 DEF StoreResponse, Co!Next
<1>3. ASSUME NEW r \in Requests, WaitInDo(r) \/ ExecuteInDo(r) \/ FinishDo(r)
      PROVE  Co!Next
    BY <1>3 DEF WaitInDo, ExecuteInDo, FinishDo, Co!Next
<1>4. ASSUME NEW r \in Requests,
             \/ CheckQuota(r) \/ Lookup(r) \/ UpstreamAnswers(r) \/ RecordUsage(r)
             \/ AfterDo(r) \/ NoCandidateLeft(r) \/ Disconnect(r)
             \/ \E p \in Providers : TryCandidate(r, p)
      PROVE  UNCHANGED doVars
    BY <1>4 DEF CheckQuota, Lookup, UpstreamAnswers, RecordUsage, AfterDo,
                NoCandidateLeft, Disconnect, TryCandidate
<1>5. ASSUME NEW k \in CacheKeys, Expire(k) PROVE UNCHANGED doVars
    BY <1>5 DEF Expire
<1>6. CASE UNCHANGED vars
    BY <1>6 DEF vars
<1> QED BY <1>1, <1>2, <1>3, <1>4, <1>5, <1>6 DEF Next, Handle

\* The handler calls Do with one fixed key per request and hands it an outcome
\* of the upstream call: what holds of the coalescer holds inside the handler.
LEMMA HandlerUsesDo == Spec => Co!Spec
<1>1. Init => Co!Init
    BY DEF Init
<1> QED BY <1>1, NextUsesDo, InHandHolds, PTL DEF Spec, Co!Spec

\* The coalescer's inductive invariant, inherited.
LEMMA DoInvariantHolds == Spec => []Do!IInv
<1>1. Co!Spec => Do!Spec
    BY DEF Co!Spec, Co!Init, Co!Next, Co!vars, Do!Spec, Do!Init, Do!Next, Do!vars,
           Co!Join, Do!Join, Co!Lead, Do!Lead, Co!FnReturns, Do!FnReturns,
           Co!FnPanics, Do!FnPanics, Co!AssignResult, Do!AssignResult,
           Co!CloseDone, Do!CloseDone, Co!Cleanup, Do!Cleanup, Co!Wake, Do!Wake,
           Co!WaitTimesOut, Do!WaitTimesOut
<1>2. Do!Spec => []Do!IInv
    BY ValuesDiffer, Do!InvariantHolds
<1> QED BY <1>1, <1>2, HandlerUsesDo, PTL

(***************************************************************************)
(* Two requests with the same cache key never call the upstream at the     *)
(* same time within Do, and one that waited returns what the executor of   *)
(* its own key got: the promise of single flight, in the handler.          *)
(***************************************************************************)
THEOREM OneUpstreamCallPerKey ==
    Spec => [](Co!OneExecutorPerKey /\ Co!WaitersShareTheResult)
<1>1. Do!IInv => Co!OneExecutorPerKey
    BY DEF Do!IInv, Do!EntriesAreOwned, Do!Leading, Co!OneExecutorPerKey, Co!Leading
<1>2. Do!IInv => Co!WaitersShareTheResult
    BY DEF Do!IInv, Do!TypeOK, Do!ResultsAreHandedOver, Do!WaitersKnowTheirCall,
           Co!WaitersShareTheResult
<1> QED BY <1>1, <1>2, DoInvariantHolds, PTL

(***************************************************************************)
(* A request that waits in Do waits for one that is done, or for one that  *)
(* is still executing and is the one in the map, with which whoever comes  *)
(* later waits too.  The handler's fn is taken not to panic.               *)
(***************************************************************************)
THEOREM WaitersHaveAnExecutor ==
    Spec => [](\A r \in Requests :
                  pc[r] = "waiting" /\ ~closed[joined[r]] =>
                      pending[key[r]] = joined[r] /\ Co!Leading(joined[r]))
<1>1. Do!IInv => Do!UndoneCallsStayInTheMap
    BY ValuesDiffer, Do!WaitedForIsListed
<1>2. Do!UndoneCallsStayInTheMap =>
        \A r \in Requests :
            pc[r] = "waiting" /\ ~closed[joined[r]] =>
                pending[key[r]] = joined[r] /\ Co!Leading(joined[r])
    BY DEF Do!UndoneCallsStayInTheMap, Do!Leading, Co!Leading
<1> QED BY <1>1, <1>2, DoInvariantHolds, PTL
-----------------------------------------------------------------------------
\* The executor of fn is the leader in Do.
ExecutorsLead ==
    \A r \in Requests : at[r] \in {"upstream", "record", "store"} => pc[r] = "running"

\* A response fits a key: it answers a request with that key, by its provider.
Fits(v, k) == v \in Responses => CacheKey(req[v.by]) = k /\ v.from = k.provider

\* Where responses go in Do: from the executor to its call, and to the waiters.
DoHandsOutFitting == \A r \in Requests : Fits(ret[r], key[r]) /\ Fits(result[r], key[r])

\* What is cached fits its key, and its executor has come back from fn.
CacheFits ==
    \A k \in CacheKeys :
        /\ Fits(cache[k], k)
        /\ cache[k] # NoEntry =>
              pc[cache[k].by] \in {"returned_fn", "assigned", "closed", "done"}

\* What a client got fits its request, or its own degradation brought it.
OutFits ==
    \A r \in Requests : out[r] \in Responses =>
        /\ CacheKey(req[out[r].by]) = key[r]
        /\ out[r].from = key[r].provider \/ out[r].by = r

\* The types that the coalescer's invariant does not give.
HandlerTypes ==
    /\ out \in [Requests -> Responses \cup Errors
                            \cup [kind : {"none", "timeout", "budget"}]]
    /\ cache \in [CacheKeys -> Responses \cup {NoEntry}]
    /\ ledger \in [Tenants -> Nat] /\ metered \in [Tenants -> Nat]
    /\ asked \in [Requests -> SUBSET Providers]
    /\ todo \in [Requests -> SUBSET Providers]
    /\ gone \in [Requests -> BOOLEAN]

Base == ResponseInHand /\ Do!IInv
IInv == HandlerTypes /\ ExecutorsLead /\ DoHandsOutFitting /\ CacheFits /\ OutFits

\* Nothing was answered, cached or returned yet.
LEMMA InitIInv == Init => IInv
<1> SUFFICES ASSUME Init PROVE IInv
    OBVIOUS
<1>1. NoEntry \notin Responses
    BY DEF NoEntry, Responses
<1>2. HandlerTypes
    BY DEF Init, HandlerTypes, NoEntry
<1>3. DoHandsOutFitting /\ CacheFits /\ OutFits
    BY <1>1 DEF Init, Co!Init, DoHandsOutFitting, CacheFits, OutFits, Fits
<1> QED BY <1>2, <1>3 DEF Init, IInv, ExecutorsLead

\* The fields of a request, and what Do returns is a value that can be answered.
LEMMA Values ==
    ASSUME Base, NEW r \in Requests
    PROVE  /\ req[r].provider \in Providers /\ req[r].tenant \in Tenants
           /\ key[r] = CacheKey(req[r]) /\ key[r] \in CacheKeys
           /\ key[r].provider = req[r].provider
           /\ ret[r] \in Responses \cup Errors \cup [kind : {"none", "timeout", "budget"}]
           /\ NoEntry \notin Responses /\ TimeoutError \notin Responses
<1>1. req[r] \in Contents /\ key[r] = CacheKey(req[r])
    BY DEF Base, ResponseInHand
<1>2. req[r].provider \in Providers /\ req[r].tenant \in Tenants
    BY <1>1, ChatAssumption
<1>3. ret[r] \in Responses \cup Errors \cup {NoEntry, TimeoutError}
    BY DEF Base, Do!IInv, Do!TypeOK
<1> QED
    BY <1>1, <1>2, <1>3
       DEF CacheKey, CacheKeys, NoEntry, TimeoutError, Responses

\* The steps of Do pass on what fits the caller's key.
LEMMA DoStepsFit ==
    ASSUME Base, IInv, NEW r \in Requests, UNCHANGED coVars,
           \/ Co!Join(r) \/ Co!AssignResult(r) \/ Co!CloseDone(r)
           \/ Co!Cleanup(r) \/ Co!Wake(r) \/ Co!WaitTimesOut(r)
    PROVE  IInv'
<1>0. /\ key' = key /\ req' = req /\ cache' = cache /\ out' = out /\ at' = at
    BY KeyIsFixed DEF coVars, DoStep
<1>1. HandlerTypes'
    BY DEF IInv, HandlerTypes, coVars
<1>2. OutFits'
    BY <1>0 DEF IInv, OutFits
<1>3. /\ pc \in [Requests -> Co!Pcs] /\ pc[r] \notin {"running"}
      /\ \A s \in Requests : s # r => pc'[s] = pc[s]
      /\ pc[r] \in {"returned_fn", "assigned", "closed", "done"} =>
           pc'[r] \in {"returned_fn", "assigned", "closed", "done"}
    BY DEF Base, Do!IInv, Do!TypeOK, Do!Pcs, Co!Pcs, Co!Join, Co!AssignResult,
           Co!CloseDone, Co!Cleanup, Co!Wake, Co!WaitTimesOut
<1>4. ExecutorsLead'
    BY <1>0, <1>3 DEF IInv, ExecutorsLead
<1>5. CacheFits'
    <2> SUFFICES ASSUME NEW k \in CacheKeys
                 PROVE  /\ Fits(cache[k], k)'
                        /\ cache[k] # NoEntry => pc'[cache[k].by]
                             \in {"returned_fn", "assigned", "closed", "done"}
        BY <1>0 DEF CacheFits
    <2>1. cache[k] # NoEntry => cache[k].by \in Requests
        BY DEF IInv, HandlerTypes, Responses
    <2> QED BY <1>0, <1>3, <2>1 DEF IInv, CacheFits, Fits
<1>6. DoHandsOutFitting'
    <2>1. CASE Co!Wake(r)
        <3>1. joined[r] \in Requests /\ key[joined[r]] = key[r]
            BY <2>1, ValuesDiffer
               DEF Base, Do!IInv, Do!TypeOK, Do!WaitersKnowTheirCall, Co!Wake
        <3> QED
            BY <1>0, <2>1, <3>1
               DEF Base, Do!IInv, Do!TypeOK, IInv, DoHandsOutFitting, Fits, Co!Wake
    <2>2. CASE Co!AssignResult(r)
        BY <1>0, <2>2
           DEF Base, Do!IInv, Do!TypeOK, IInv, DoHandsOutFitting, Fits, Co!AssignResult
    <2>3. CASE Co!WaitTimesOut(r)
        BY <1>0, <2>3, Values
           DEF Base, Do!IInv, Do!TypeOK, IInv, DoHandsOutFitting, Fits, Co!WaitTimesOut
    <2>4. CASE Co!Join(r) \/ Co!CloseDone(r) \/ Co!Cleanup(r)
        BY <1>0, <2>4
           DEF IInv, DoHandsOutFitting, Fits, Co!Join, Co!CloseDone, Co!Cleanup
    <2> QED BY <2>1, <2>2, <2>3, <2>4
<1> QED BY <1>1, <1>2, <1>4, <1>5, <1>6 DEF IInv

\* Steps outside of Do and of the cache leave what fits as it is.
LEMMA QuietStepsFit ==
    ASSUME IInv, UNCHANGED <<doVars, req, cache>>
    PROVE  DoHandsOutFitting' /\ CacheFits'
BY DEF IInv, DoHandsOutFitting, CacheFits, Fits, doVars

\* An answer that fits keeps the clients' answers fitting.
LEMMA AnswerFits ==
    ASSUME Base, IInv, NEW r \in Requests, NEW v,
           v \in Responses \cup Errors \cup [kind : {"none", "timeout", "budget"}],
           Answer(r, v), req' = req, key' = key,
           v \in Responses => /\ CacheKey(req[v.by]) = key[r]
                              /\ v.from = key[r].provider \/ v.by = r
    PROVE  /\ OutFits'
           /\ out' \in [Requests -> Responses \cup Errors
                                    \cup [kind : {"none", "timeout", "budget"}]]
BY DEF Base, ResponseInHand, IInv, HandlerTypes, Answer, Goto, OutFits

\* Each step of a handler keeps it.
LEMMA NextIInv == Base /\ IInv /\ [Next]_vars => IInv'
<1> SUFFICES ASSUME Base, IInv, [Next]_vars PROVE IInv'
    OBVIOUS
<1>0. at \in [Requests -> Places] /\ req \in [Requests -> Contents]
    BY DEF Base, ResponseInHand
<1> DEFINE Answers == Responses \cup Errors \cup [kind : {"none", "timeout", "budget"}]
<1>1. ASSUME NEW r \in Requests, CheckQuota(r) PROVE IInv'
    <2>1. DoHandsOutFitting' /\ CacheFits'
        BY <1>1, QuietStepsFit DEF CheckQuota
    <2>2. ExecutorsLead'
        BY <1>0, <1>1 DEF CheckQuota, IInv, ExecutorsLead, Goto, Answer, doVars
    <2>3. HandlerTypes' /\ OutFits'
        <3>1. CASE Answer(r, [kind |-> "budget"])
            <4>1. [kind |-> "budget"] \in Answers /\ [kind |-> "budget"] \notin Responses
                BY DEF Responses
            <4> QED
                BY <1>1, <3>1, <4>1, AnswerFits DEF CheckQuota, IInv, HandlerTypes, doVars
        <3>2. CASE UNCHANGED out
            BY <1>1, <3>2 DEF CheckQuota, IInv, HandlerTypes, OutFits, doVars
        <3> QED BY <1>1, <3>1, <3>2 DEF CheckQuota
    <2> QED BY <2>1, <2>2, <2>3 DEF IInv
<1>2. ASSUME NEW r \in Requests, Lookup(r) PROVE IInv'
    <2>1. DoHandsOutFitting' /\ CacheFits'
        BY <1>2, QuietStepsFit DEF Lookup
    <2>2. ExecutorsLead'
        BY <1>0, <1>2 DEF Lookup, IInv, ExecutorsLead, Goto, Answer, doVars
    <2>3. HandlerTypes' /\ OutFits'
        <3>1. CASE cache[key[r]] # NoEntry /\ Answer(r, cache[key[r]])
            <4>1. cache[key[r]] \in Responses /\ Fits(cache[key[r]], key[r])
                BY <3>1, Values DEF IInv, HandlerTypes, CacheFits
            <4> QED
                BY <1>2, <3>1, <4>1, AnswerFits DEF Lookup, IInv, HandlerTypes, doVars, Fits
        <3>2. CASE UNCHANGED out
            BY <1>2, <3>2 DEF Lookup, IInv, HandlerTypes, OutFits, doVars
        <3> QED BY <1>2, <3>1, <3>2 DEF Lookup
    <2> QED BY <2>1, <2>2, <2>3 DEF IInv
<1>3. ASSUME NEW r \in Requests, WaitInDo(r) \/ FinishDo(r) PROVE IInv'
    BY <1>3, DoStepsFit DEF WaitInDo, FinishDo
<1>4. ASSUME NEW r \in Requests, ExecuteInDo(r) PROVE IInv'
    <2>1. /\ req' = req /\ cache' = cache /\ key' = key /\ ret' = ret /\ result' = result
          /\ pc' = [pc EXCEPT ![r] = "running"] /\ pc[r] = "idle" /\ pc \in [Requests -> Do!Pcs]
          /\ out' = out
        BY <1>4 DEF ExecuteInDo, Co!Lead, Base, Do!IInv, Do!TypeOK
    <2>2. DoHandsOutFitting' /\ OutFits'
        BY <2>1 DEF IInv, DoHandsOutFitting, OutFits, Fits
    <2>3. CacheFits'
        <3>1. \A k \in CacheKeys : cache[k] # NoEntry => cache[k].by \in Requests
            BY DEF IInv, HandlerTypes, Responses
        <3> QED BY <2>1, <3>1 DEF IInv, CacheFits, Fits
    <2>4. ExecutorsLead'
        BY <1>0, <1>4, <2>1 DEF ExecuteInDo, Goto, IInv, ExecutorsLead
    <2>5. HandlerTypes'
        BY <1>4, Values DEF ExecuteInDo, IInv, HandlerTypes
    <2> QED BY <2>2, <2>3, <2>4, <2>5 DEF IInv
<1>5. ASSUME NEW r \in Requests, UpstreamAnswers(r) PROVE IInv'
    <2>1. DoHandsOutFitting' /\ CacheFits'
        BY <1>5, QuietStepsFit DEF UpstreamAnswers
    <2>2. OutFits'
        BY <1>5 DEF UpstreamAnswers, IInv, OutFits, doVars
    <2>3. ExecutorsLead'
        BY <1>0, <1>5 DEF UpstreamAnswers, Goto, IInv, ExecutorsLead, doVars
    <2>4. HandlerTypes'
        BY <1>5, Values DEF UpstreamAnswers, IInv, HandlerTypes
    <2> QED BY <2>1, <2>2, <2>3, <2>4 DEF IInv
<1>6. ASSUME NEW r \in Requests, NEW v \in Responses \cup Errors, Fits(v, key[r]),
             Co!FnReturns(r, v), Goto(r, "do"), UNCHANGED <<req, out>>
      PROVE  /\ DoHandsOutFitting' /\ OutFits' /\ ExecutorsLead'
             /\ pc'[r] = "returned_fn" /\ key' = key
             /\ \A s \in Requests : pc[s] \in {"returned_fn", "assigned", "closed", "done"} =>
                    pc'[s] \in {"returned_fn", "assigned", "closed", "done"}
    <2>1. /\ key' = key /\ result' = result /\ ret' = [ret EXCEPT ![r] = v]
          /\ pc' = [pc EXCEPT ![r] = "returned_fn"]
          /\ pc \in [Requests -> Do!Pcs]
          /\ ret \in [Requests -> Responses \cup Errors \cup {NoEntry, TimeoutError}]
        BY <1>6 DEF Co!FnReturns, Base, Do!IInv, Do!TypeOK
    <2>2. DoHandsOutFitting' /\ OutFits'
        BY <1>6, <2>1 DEF IInv, DoHandsOutFitting, OutFits, Fits
    <2>3. ExecutorsLead'
        BY <1>0, <1>6, <2>1 DEF IInv, ExecutorsLead, Goto
    <2> QED BY <2>1, <2>2, <2>3
<1>7. ASSUME NEW r \in Requests, UpstreamFails(r) PROVE IInv'
    <2>1. PICK e \in Errors : Co!FnReturns(r, e)
        BY <1>7 DEF UpstreamFails
    <2>2. Fits(e, key[r])
        BY DEF Fits, Errors, Responses
    <2>3. /\ DoHandsOutFitting' /\ OutFits' /\ ExecutorsLead' /\ key' = key
          /\ \A s \in Requests : pc[s] \in {"returned_fn", "assigned", "closed", "done"} =>
                    pc'[s] \in {"returned_fn", "assigned", "closed", "done"}
        BY <1>6, <1>7, <2>1, <2>2 DEF UpstreamFails
    <2>4. CacheFits'
        <3>1. \A k \in CacheKeys : cache[k] # NoEntry => cache[k].by \in Requests
            BY DEF IInv, HandlerTypes, Responses
        <3> QED BY <1>7, <2>3, <3>1 DEF UpstreamFails, IInv, CacheFits, Fits
    <2>5. HandlerTypes'
        BY <1>7 DEF UpstreamFails, IInv, HandlerTypes
    <2> QED BY <2>3, <2>4, <2>5 DEF IInv
<1>8. ASSUME NEW r \in Requests, RecordUsage(r) PROVE IInv'
    <2>1. DoHandsOutFitting' /\ CacheFits'
        BY <1>8, QuietStepsFit DEF RecordUsage
    <2>2. OutFits'
        BY <1>8 DEF RecordUsage, IInv, OutFits, doVars
    <2>3. ExecutorsLead'
        BY <1>0, <1>8 DEF RecordUsage, Goto, IInv, ExecutorsLead, doVars
    <2>4. HandlerTypes'
        BY <1>8, Values DEF RecordUsage, IInv, HandlerTypes
    <2> QED BY <2>1, <2>2, <2>3, <2>4 DEF IInv
<1>9. ASSUME NEW r \in Requests, StoreResponse(r) PROVE IInv'
    <2>1. /\ got[r] \in Responses /\ got[r].by = r
          /\ Fits(got[r], key[r]) /\ key[r] \in CacheKeys
        BY <1>9, Values DEF StoreResponse, Base, ResponseInHand, Fits
    <2>2. /\ DoHandsOutFitting' /\ OutFits' /\ ExecutorsLead' /\ key' = key
          /\ pc'[r] = "returned_fn"
          /\ \A s \in Requests : pc[s] \in {"returned_fn", "assigned", "closed", "done"} =>
                    pc'[s] \in {"returned_fn", "assigned", "closed", "done"}
        BY <1>6, <1>9, <2>1 DEF StoreResponse
    <2>3. PICK evicted \in SUBSET (CacheKeys \ {key[r]}) :
              cache' = [k \in CacheKeys |->
                          IF k = key[r] THEN got[r]
                          ELSE IF k \in evicted THEN NoEntry ELSE cache[k]]
        BY <1>9 DEF StoreResponse
    <2>4. CacheFits'
        <3> SUFFICES ASSUME NEW k \in CacheKeys
                     PROVE  /\ Fits(cache'[k], k)
                            /\ cache'[k] # NoEntry => pc'[cache'[k].by]
                                 \in {"returned_fn", "assigned", "closed", "done"}
            BY <1>9 DEF StoreResponse, CacheFits, Fits
        <3>1. cache[k] # NoEntry => cache[k].by \in Requests
            BY DEF IInv, HandlerTypes, Responses
        <3>2. Fits(NoEntry, k)
            BY DEF Fits, NoEntry, Responses
        <3> QED BY <2>1, <2>2, <2>3, <3>1, <3>2 DEF IInv, CacheFits
    <2>5. HandlerTypes'
        BY <1>9, <2>1, <2>3 DEF StoreResponse, IInv, HandlerTypes
    <2> QED BY <2>2, <2>4, <2>5 DEF IInv
<1>10. ASSUME NEW r \in Requests, AfterDo(r) PROVE IInv'
    <2>1. DoHandsOutFitting' /\ CacheFits'
        BY <1>10, QuietStepsFit DEF AfterDo
    <2>2. ExecutorsLead'
        BY <1>0, <1>10 DEF AfterDo, IInv, ExecutorsLead, Goto, Answer, doVars
    <2>3. todo' \in [Requests -> SUBSET Providers]
        BY <1>10 DEF AfterDo, IInv, HandlerTypes
    <2>4. HandlerTypes' /\ OutFits'
        <3>1. CASE Answer(r, ret[r])
            BY <1>10, <2>3, <3>1, AnswerFits, Values
               DEF AfterDo, IInv, HandlerTypes, DoHandsOutFitting, Fits, doVars
        <3>2. CASE UNCHANGED out
            BY <1>10, <2>3, <3>2 DEF AfterDo, IInv, HandlerTypes, OutFits, doVars
        <3> QED BY <1>10, <3>1, <3>2 DEF AfterDo
    <2> QED BY <2>1, <2>2, <2>4 DEF IInv
<1>11. ASSUME NEW r \in Requests, NoCandidateLeft(r) PROVE IInv'
    <2>1. DoHandsOutFitting' /\ CacheFits'
        BY <1>11, QuietStepsFit DEF NoCandidateLeft
    <2>2. ExecutorsLead'
        BY <1>0, <1>11 DEF NoCandidateLeft, IInv, ExecutorsLead, Goto, Answer, doVars
    <2>3. HandlerTypes' /\ OutFits'
        BY <1>11, AnswerFits, Values
           DEF NoCandidateLeft, IInv, HandlerTypes, DoHandsOutFitting, Fits, doVars
    <2> QED BY <2>1, <2>2, <2>3 DEF IInv
<1>12. ASSUME NEW r \in Requests, NEW p \in Providers, TryCandidate(r, p) PROVE IInv'
    <2>1. DoHandsOutFitting' /\ CacheFits'
        BY <1>12, QuietStepsFit DEF TryCandidate
    <2>2. ExecutorsLead'
        BY <1>0, <1>12 DEF TryCandidate, IInv, ExecutorsLead, Goto, Answer, doVars
    <2>3. /\ todo' \in [Requests -> SUBSET Providers]
          /\ asked' \in [Requests -> SUBSET Providers]
        BY <1>12 DEF TryCandidate, IInv, HandlerTypes
    <2>4. ledger' \in [Tenants -> Nat] /\ metered' \in [Tenants -> Nat]
        <3>1. \/ UNCHANGED <<metered, ledger>>
              \/ /\ metered' = [metered EXCEPT ![req[r].tenant] = @ + 1]
                 /\ ledger' = [ledger EXCEPT ![req[r].tenant] = @ + 1]
            BY <1>12 DEF TryCandidate
        <3> QED BY <3>1, Values DEF IInv, HandlerTypes
    <2>5. /\ OutFits'
          /\ out' \in [Requests -> Answers]
        <3>1. ASSUME NEW whole \in BOOLEAN,
                     Answer(r, [kind |-> "ok", by |-> r, from |-> p, whole |-> whole])
              PROVE  OutFits' /\ out' \in [Requests -> Answers]
            <4> DEFINE v == [kind |-> "ok", by |-> r, from |-> p, whole |-> whole]
            <4>1. v \in Responses /\ v.by = r
                BY DEF Responses
            <4>2. Answer(r, v)
                BY <3>1
            <4> HIDE DEF v
            <4> QED BY <1>12, <4>1, <4>2, AnswerFits, Values DEF TryCandidate, doVars
        <3>2. CASE UNCHANGED out
            BY <1>12, <3>2 DEF TryCandidate, IInv, HandlerTypes, OutFits, doVars
        <3> QED BY <1>12, <3>1, <3>2 DEF TryCandidate
    <2> QED
        BY <1>12, <2>1, <2>2, <2>3, <2>4, <2>5 DEF TryCandidate, IInv, HandlerTypes
<1>13. ASSUME NEW r \in Requests, Disconnect(r) PROVE IInv'
    <2>1. DoHandsOutFitting' /\ CacheFits'
        BY <1>13, QuietStepsFit DEF Disconnect
    <2> QED
        BY <1>13, <2>1
           DEF Disconnect, IInv, HandlerTypes, ExecutorsLead, OutFits, doVars
<1>14. ASSUME NEW k \in CacheKeys, Expire(k) PROVE IInv'
    <2>1. HandlerTypes'
        BY <1>14 DEF Expire, IInv, HandlerTypes
    <2>2. CacheFits'
        <3>1. Fits(NoEntry, k)
            BY DEF Fits, NoEntry, Responses
        <3> QED
            BY <1>14, <3>1 DEF Expire, IInv, HandlerTypes, CacheFits, Fits, doVars
    <2> QED
        BY <1>14, <2>1, <2>2
           DEF Expire, IInv, ExecutorsLead, DoHandsOutFitting, OutFits, Fits, doVars
<1>15. CASE UNCHANGED vars
    BY <1>15, QuietStepsFit
       DEF vars, coVars, doVars, IInv, HandlerTypes, ExecutorsLead, OutFits
<1> QED
    BY <1>1, <1>2, <1>3, <1>4, <1>5, <1>7, <1>8, <1>9, <1>10, <1>11, <1>12,
       <1>13, <1>14, <1>15 DEF Next, Handle

\* Every state of the handlers, with the coalescer's invariant.
THEOREM InvariantHolds == Spec => [](Base /\ IInv)
<1>1. Spec => []Base
    BY InHandHolds, DoInvariantHolds, PTL DEF Base
<1> QED BY <1>1, InitIInv, NextIInv, PTL DEF Spec

(***************************************************************************)
(* The handler keeps its types, those of the coalescer it calls included.  *)
(***************************************************************************)
THEOREM TypeCorrect == Spec => []TypeOK
<1>1. Base /\ IInv => TypeOK
    BY DEF Base, ResponseInHand, IInv, HandlerTypes, TypeOK, Do!IInv, Do!TypeOK,
           Co!TypeOK, Do!Pcs, Co!Pcs
<1> QED BY <1>1, InvariantHolds, PTL

(***************************************************************************)
(* For any number of requests, tenants and providers, a client never gets  *)
(* a response that was produced for another tenant, prompt, context or     *)
(* provider (api.go:567), whether it comes from the cache, from a merged   *)
(* call or from a call of its own, and in whatever order they interleave.  *)
(***************************************************************************)
THEOREM NoForeignAnswer == Spec => []AnswersMatchTheRequest
<1>1. ASSUME Base, IInv, NEW r \in Requests, Answered(r)
      PROVE  /\ \A field \in {"provider", "tenant", "prompt", "context"} :
                   req[out[r].by][field] = req[r][field]
             /\ out[r].from # req[r].provider => out[r].by = r
    <2>1. out[r] \in Responses
        BY <1>1 DEF Answered, IInv, HandlerTypes, Errors
    <2>2. /\ CacheKey(req[out[r].by]) = CacheKey(req[r])
          /\ out[r].from = req[r].provider \/ out[r].by = r
        BY <1>1, <2>1, Values DEF IInv, OutFits
    <2> QED BY <2>2 DEF CacheKey
<1>2. Base /\ IInv => /\ \A r \in Requests : Answered(r) =>
                           /\ \A field \in {"provider", "tenant", "prompt", "context"} :
                                 req[out[r].by][field] = req[r][field]
                           /\ out[r].from # req[r].provider => out[r].by = r
    BY <1>1
<1> QED
    BY <1>2, InvariantHolds, TypeCorrect, PTL DEF AnswersMatchTheRequest

(***************************************************************************)
(* For any number of requests, an entry of the cache is the response of    *)
(* the provider in its key to a request with that key, never one that a    *)
(* degradation brought, and its usage was recorded before it was stored.   *)
(***************************************************************************)
THEOREM CacheIsSound == Spec => []CacheHoldsRecordedPrimaries
<1>1. ASSUME Base, IInv, NEW k \in CacheKeys, cache[k] # NoEntry
      PROVE  /\ cache[k].from = k.provider /\ CacheKey(req[cache[k].by]) = k
             /\ at[cache[k].by] # "record"
    <2>1. cache[k] \in Responses /\ cache[k].by \in Requests
        BY <1>1 DEF IInv, HandlerTypes, Responses
    <2> QED BY <1>1, <2>1 DEF IInv, CacheFits, Fits, ExecutorsLead
<1>2. Base /\ IInv => CacheHoldsRecordedPrimaries
    BY <1>1 DEF CacheHoldsRecordedPrimaries
<1> QED BY <1>2, InvariantHolds, PTL
-----------------------------------------------------------------------------
\* The requests that hold a response whose usage is not recorded yet.
Recording(t) == {r \in Requests : at[r] = "record" /\ req[r].tenant = t}

\* They are finitely many.
LEMMA RecordingIsFinite ==
    \A t : IsFiniteSet(Recording(t)) /\ Cardinality(Recording(t)) \in Nat
<1>1. \A t : Recording(t) \in SUBSET Requests
    BY DEF Recording
<1> QED BY <1>1, ChatAssumption, FS_Subset, FS_CardinalityType

\* A request that neither was about to record nor will be does not change them.
LEMMA RecordingUnchanged ==
    ASSUME ResponseInHand, NEW r \in Requests, NEW p, Goto(r, p), req' = req,
           at[r] # "record", p # "record"
    PROVE  \A t : Recording(t)' = Recording(t)
BY DEF ResponseInHand, Goto, Recording

\* One that holds a response with usage is added to those of its tenant.
LEMMA RecordingGrows ==
    ASSUME ResponseInHand, NEW r \in Requests, Goto(r, "record"), req' = req,
           at[r] # "record"
    PROVE  /\ \A t : t # req[r].tenant => Recording(t)' = Recording(t)
           /\ Cardinality(Recording(req[r].tenant)') = Cardinality(Recording(req[r].tenant)) + 1
<1>1. \A t : t # req[r].tenant => Recording(t)' = Recording(t)
    BY DEF ResponseInHand, Goto, Recording
<1>2. /\ Recording(req[r].tenant)' = Recording(req[r].tenant) \cup {r}
      /\ r \notin Recording(req[r].tenant)
    BY DEF ResponseInHand, Goto, Recording
<1>3. Cardinality(Recording(req[r].tenant)') = Cardinality(Recording(req[r].tenant)) + 1
    <2> DEFINE A == Recording(req[r].tenant)
    <2>1. IsFiniteSet(A) /\ r \notin A
        BY <1>2, RecordingIsFinite
    <2>2. Recording(req[r].tenant)' = A \cup {r}
        BY <1>2
    <2> HIDE DEF A
    <2>3. Cardinality(A \cup {r}) = Cardinality(A) + 1
        BY <2>1, FS_AddElement
    <2> QED BY <2>2, <2>3 DEF A
<1> QED BY <1>1, <1>3

\* One that records is taken off.
LEMMA RecordingShrinks ==
    ASSUME ResponseInHand, NEW r \in Requests, Goto(r, "store"), req' = req,
           at[r] = "record"
    PROVE  /\ \A t : t # req[r].tenant => Recording(t)' = Recording(t)
           /\ Cardinality(Recording(req[r].tenant)') = Cardinality(Recording(req[r].tenant)) - 1
<1>1. \A t : t # req[r].tenant => Recording(t)' = Recording(t)
    BY DEF ResponseInHand, Goto, Recording
<1>2. /\ Recording(req[r].tenant)' = Recording(req[r].tenant) \ {r}
      /\ r \in Recording(req[r].tenant)
    BY DEF ResponseInHand, Goto, Recording
<1>3. Cardinality(Recording(req[r].tenant)') = Cardinality(Recording(req[r].tenant)) - 1
    <2> DEFINE A == Recording(req[r].tenant)
    <2>1. IsFiniteSet(A) /\ r \in A
        BY <1>2, RecordingIsFinite
    <2>2. Recording(req[r].tenant)' = A \ {r}
        BY <1>2
    <2> HIDE DEF A
    <2>3. Cardinality(A \ {r}) = Cardinality(A) - 1
        BY <2>1, FS_RemoveElement
    <2> QED BY <2>2, <2>3 DEF A
<1> QED BY <1>1, <1>3

\* Charges and usage reports keep pace in every step.
LEMMA NextChargedOnce == Base /\ IInv /\ ChargedOnce /\ [Next]_vars => ChargedOnce'
<1> SUFFICES ASSUME Base, IInv, ChargedOnce, [Next]_vars PROVE ChargedOnce'
    OBVIOUS
<1>0. /\ ResponseInHand /\ ledger \in [Tenants -> Nat] /\ metered \in [Tenants -> Nat]
      /\ \A t \in Tenants : ledger[t] + Cardinality(Recording(t)) = metered[t]
    BY DEF Base, IInv, HandlerTypes, ChargedOnce, Recording
<1> SUFFICES \A t \in Tenants : ledger'[t] + Cardinality(Recording(t)') = metered'[t]
    BY DEF ChargedOnce, Recording
<1>1. ASSUME NEW r \in Requests, UpstreamAnswers(r)
      PROVE  \A t \in Tenants : ledger'[t] + Cardinality(Recording(t)') = metered'[t]
    <2>1. /\ at[r] = "upstream" /\ req' = req /\ ledger' = ledger
          /\ \/ metered' = metered /\ Goto(r, "store")
             \/ metered' = [metered EXCEPT ![req[r].tenant] = @ + 1] /\ Goto(r, "record")
        BY <1>1 DEF UpstreamAnswers
    <2>2. CASE metered' = metered /\ Goto(r, "store")
        BY <1>0, <2>1, <2>2, RecordingUnchanged
    <2>3. CASE metered' = [metered EXCEPT ![req[r].tenant] = @ + 1] /\ Goto(r, "record")
        BY <1>0, <2>1, <2>3, RecordingGrows, RecordingIsFinite, Values
    <2> QED BY <2>1, <2>2, <2>3
<1>2. ASSUME NEW r \in Requests, RecordUsage(r)
      PROVE  \A t \in Tenants : ledger'[t] + Cardinality(Recording(t)') = metered'[t]
    BY <1>0, <1>2, RecordingShrinks, RecordingIsFinite, Values DEF RecordUsage
<1>3. ASSUME NEW r \in Requests, NEW p \in Providers, TryCandidate(r, p)
      PROVE  \A t \in Tenants : ledger'[t] + Cardinality(Recording(t)') = metered'[t]
    <2>1. /\ at[r] = "degrade" /\ req' = req
          /\ at' = at \/ Goto(r, "answered")
          /\ \/ UNCHANGED <<metered, ledger>>
             \/ /\ metered' = [metered EXCEPT ![req[r].tenant] = @ + 1]
                /\ ledger' = [ledger EXCEPT ![req[r].tenant] = @ + 1]
        BY <1>3 DEF TryCandidate, Answer
    <2>2. \A t \in Tenants : Recording(t)' = Recording(t)
        BY <1>0, <2>1, RecordingUnchanged DEF Recording
    <2> QED BY <1>0, <2>1, <2>2, RecordingIsFinite, Values
<1>4. ASSUME UNCHANGED <<req, ledger, metered>>,
             at' = at \/ \E r \in Requests, p \in Places \ {"record"} :
                             at[r] # "record" /\ Goto(r, p)
      PROVE  \A t \in Tenants : ledger'[t] + Cardinality(Recording(t)') = metered'[t]
    <2>1. \A t \in Tenants : Recording(t)' = Recording(t)
        BY <1>0, <1>4, RecordingUnchanged DEF Recording
    <2> QED BY <1>0, <1>4, <2>1
<1>5. ASSUME NEW r \in Requests,
             \/ CheckQuota(r) \/ Lookup(r) \/ ExecuteInDo(r) \/ UpstreamFails(r)
             \/ StoreResponse(r) \/ AfterDo(r) \/ NoCandidateLeft(r)
      PROVE  UNCHANGED <<req, ledger, metered>> /\ at[r] # "record"
             /\ \E p \in Places \ {"record"} : Goto(r, p)
    BY <1>5 DEF CheckQuota, Lookup, ExecuteInDo, UpstreamFails, StoreResponse,
                AfterDo, NoCandidateLeft, Answer, Places
<1>6. ASSUME NEW r \in Requests, WaitInDo(r) \/ FinishDo(r) \/ Disconnect(r)
      PROVE  UNCHANGED <<req, at, ledger, metered>>
    BY <1>6 DEF WaitInDo, FinishDo, Disconnect, coVars
<1>7. ASSUME NEW k \in CacheKeys, Expire(k) PROVE UNCHANGED <<req, at, ledger, metered>>
    BY <1>7 DEF Expire
<1>8. CASE UNCHANGED vars
    BY <1>4, <1>8 DEF vars, coVars
<1> QED
    BY <1>1, <1>2, <1>3, <1>4, <1>5, <1>6, <1>7, <1>8 DEF Next, Handle

(***************************************************************************)
(* For any number of requests sharing, degrading and disconnecting, the    *)
(* cost tracker has charged each upstream response with usage exactly once *)
(* to the tenant of the request that made the call, or is about to.        *)
(***************************************************************************)
THEOREM EachCallIsChargedOnce == Spec => []ChargedOnce
<1>1. Init => ChargedOnce
    <2> SUFFICES ASSUME Init PROVE ChargedOnce
        OBVIOUS
    <2>1. \A t : Recording(t) = {}
        BY DEF Init, Recording
    <2>2. \A t \in Tenants : ledger[t] = 0 /\ metered[t] = 0
        BY DEF Init
    <2>3. \A t \in Tenants : ledger[t] + Cardinality(Recording(t)) = metered[t]
        BY <2>1, <2>2, FS_EmptySet
    <2> QED BY <2>3 DEF ChargedOnce, Recording
<1> QED BY <1>1, NextChargedOnce, InvariantHolds, PTL DEF Spec
=============================================================================
