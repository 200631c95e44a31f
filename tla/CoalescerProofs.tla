--------------------------- MODULE CoalescerProofs ---------------------------
(***************************************************************************)
(* Proofs about Coalescer for any sets of callers, keys and outcomes: one  *)
(* executor per key, the waiters share its result, and every step of Do is *)
(* a step of SingleFlight or leaves it unchanged.                          *)
(***************************************************************************)
EXTENDS Coalescer, TLAPS

\* Leaders own their map entry, and an entry belongs to a leader of its key
\* (or to a caller whose fn panicked).
EntriesAreOwned ==
    /\ \A c \in Callers : Leading(c) => pending[key[c]] = c /\ joined[c] = c
    /\ \A k \in Keys : pending[k] # Nobody =>
          /\ key[pending[k]] = k
          /\ Leading(pending[k]) \/ pc[pending[k]] = "panicked"
          /\ joined[pending[k]] = pending[k]

\* What a call object holds at each step of its executor.
ResultsAreHandedOver ==
    \A c \in Callers :
        /\ pc[c] \in {"returned_fn", "assigned", "closed"} => ret[c] \in Outcomes
        /\ pc[c] \in {"assigned", "closed"} => result[c] = ret[c]
        /\ closed[c] <=> pc[c] = "closed" \/ (pc[c] = "done" /\ joined[c] = c)
        /\ closed[c] => result[c] = ret[c] /\ ret[c] \in Outcomes

\* Whom a caller waits for, and what it took over when it is done.
WaitersKnowTheirCall ==
    \A c \in Callers :
        /\ pc[c] = "idle" <=> joined[c] = Nobody
        /\ pc[c] = "waiting" => joined[c] # c
        /\ joined[c] # Nobody =>
              /\ key[joined[c]] = key[c]
              /\ joined[joined[c]] = joined[c]
        /\ pc[c] = "done" /\ joined[c] # c /\ ret[c] # TimedOut =>
              closed[joined[c]] /\ ret[c] = result[joined[c]]

\* A caller whose fn panicked keeps its entry for good.
PanicsKeepTheirEntry ==
    \A c \in Callers : pc[c] = "panicked" => FnMayPanic /\ joined[c] = c /\ pending[key[c]] = c

IInv == /\ TypeOK
        /\ EntriesAreOwned
        /\ ResultsAreHandedOver
        /\ WaitersKnowTheirCall
        /\ PanicsKeepTheirEntry

\* NewCoalescer: the map is empty and nobody has called Do.
LEMMA InitIInv == Init => IInv
BY CoalescerAssumption
   DEF Init, IInv, TypeOK, Pcs, EntriesAreOwned, ResultsAreHandedOver,
       WaitersKnowTheirCall, PanicsKeepTheirEntry, Leading

\* Each critical section of Do, and each step outside the mutex, preserves the
\* invariant.
LEMMA NextIInv == IInv /\ [Next]_vars => IInv'
<1> SUFFICES ASSUME IInv, [Next]_vars PROVE IInv'
    OBVIOUS
<1> USE CoalescerAssumption
    DEF IInv, TypeOK, Pcs, EntriesAreOwned, ResultsAreHandedOver,
        WaitersKnowTheirCall, PanicsKeepTheirEntry, Leading
<1>1. ASSUME NEW c \in Callers, Join(c) PROVE IInv'
    BY <1>1 DEF Join
<1>2. ASSUME NEW c \in Callers, Lead(c) PROVE IInv'
    BY <1>2 DEF Lead
<1>3. ASSUME NEW c \in Callers, NEW o \in Outcomes, FnReturns(c, o)
      PROVE IInv'
    BY <1>3 DEF FnReturns
<1>4. ASSUME NEW c \in Callers, FnPanics(c) PROVE IInv'
    BY <1>4 DEF FnPanics
<1>5. ASSUME NEW c \in Callers, AssignResult(c) PROVE IInv'
    BY <1>5 DEF AssignResult
<1>6. ASSUME NEW c \in Callers, CloseDone(c) PROVE IInv'
    BY <1>6 DEF CloseDone
<1>7. ASSUME NEW c \in Callers, Cleanup(c) PROVE IInv'
    BY <1>7 DEF Cleanup
<1>8. ASSUME NEW c \in Callers, Wake(c) PROVE IInv'
    BY <1>8 DEF Wake
<1>9. ASSUME NEW c \in Callers, WaitTimesOut(c) PROVE IInv'
    BY <1>9 DEF WaitTimesOut
<1>10. CASE UNCHANGED vars
    BY <1>10 DEF vars
<1> QED
    BY <1>1, <1>2, <1>3, <1>4, <1>5, <1>6, <1>7, <1>8, <1>9, <1>10 DEF Next

\* Every state of Do satisfies the invariant and the types.
THEOREM InvariantHolds == Spec => []IInv
<1> QED BY InitIInv, NextIInv, PTL DEF Spec

(***************************************************************************)
(* Coalescer.Do keeps its types: the map holds call objects of callers,    *)
(* and what Do returns is an outcome of fn or the timeout error.           *)
(***************************************************************************)
THEOREM TypeCorrect == Spec => []TypeOK
<1>1. IInv => TypeOK
    BY DEF IInv
<1> QED BY <1>1, InvariantHolds, PTL

(***************************************************************************)
(* For every number of goroutines and keys, Do never has two executors for *)
(* one key, although fn runs outside the mutex.                            *)
(***************************************************************************)
THEOREM AtMostOneExecutor == Spec => []OneExecutorPerKey
<1>1. IInv => OneExecutorPerKey
    BY DEF IInv, EntriesAreOwned, OneExecutorPerKey
<1> QED BY <1>1, InvariantHolds, PTL

(***************************************************************************)
(* For every number of goroutines and keys, a caller of Do that waited and *)
(* did not time out returns what the executor of its own key returned.     *)
(***************************************************************************)
THEOREM ResultIsShared == Spec => []WaitersShareTheResult
<1>1. IInv => WaitersShareTheResult
    BY DEF IInv, TypeOK, ResultsAreHandedOver, WaitersKnowTheirCall,
           WaitersShareTheResult
<1> QED BY <1>1, InvariantHolds, PTL

\* Who waits for a call that is not done waits for a leader, or for a panicked one.
LEMMA WaitedForIsListed == IInv => UndoneCallsStayInTheMap
<1>1. ASSUME IInv, NEW c \in Callers, pc[c] = "waiting", ~closed[joined[c]]
      PROVE  /\ pending[key[c]] = joined[c]
             /\ Leading(joined[c]) \/ (FnMayPanic /\ pc[joined[c]] = "panicked")
    <2> DEFINE e == joined[c]
    <2>1. e \in Callers /\ key[e] = key[c] /\ joined[e] = e
        BY <1>1 DEF IInv, TypeOK, WaitersKnowTheirCall
    <2>2. pc[e] \in Pcs \ {"idle", "waiting", "done"}
        <3> HIDE DEF e
        <3>1. pc[e] \in Pcs /\ (pc[e] = "idle" <=> joined[e] = Nobody)
              /\ (pc[e] = "waiting" => joined[e] # e)
              /\ (closed[e] <=> pc[e] = "closed" \/ (pc[e] = "done" /\ joined[e] = e))
            BY <1>1, <2>1 DEF IInv, TypeOK, WaitersKnowTheirCall, ResultsAreHandedOver
        <3>2. e # Nobody
            BY <2>1, CoalescerAssumption
        <3>3. ~closed[e]
            BY <1>1 DEF e
        <3> QED BY <2>1, <3>1, <3>2, <3>3
    <2>3. CASE Leading(e)
        BY <1>1, <2>1, <2>3 DEF IInv, EntriesAreOwned
    <2>4. CASE pc[e] = "panicked"
        BY <1>1, <2>1, <2>4 DEF IInv, PanicsKeepTheirEntry
    <2> QED BY <2>2, <2>3, <2>4 DEF Pcs, Leading
<1> QED BY <1>1 DEF UndoneCallsStayInTheMap

(***************************************************************************)
(* For every number of goroutines and keys, a call of Do that somebody     *)
(* waits for and that is not done is the one in the map, and its executor  *)
(* will close it unless fn panicked.                                       *)
(***************************************************************************)
THEOREM NoCallIsAbandoned == Spec => []UndoneCallsStayInTheMap
<1> QED BY WaitedForIsListed, InvariantHolds, PTL
-----------------------------------------------------------------------------
\* A coalescer without calls is a schedule without flights.
LEMMA InitRefines == Init => Promise!Init
BY CoalescerAssumption DEF Init, Promise!Init, Cargo, Answer

\* What a finished caller adds to the mapped answers.
LEMMA AnswerOf ==
    ASSUME TypeOK, NEW c \in Callers, pc[c] # "done",
           pc' = [pc EXCEPT ![c] = "done"],
           \/ ret' = ret
           \/ \E v : ret' = [ret EXCEPT ![c] = v]
    PROVE  Answer[c] = Nothing /\ Answer' = [Answer EXCEPT ![c] = ret'[c]]
<1>1. \A d \in Callers : pc'[d] = IF d = c THEN "done" ELSE pc[d]
    BY DEF TypeOK
<1>2. \A d \in Callers : d # c => ret'[d] = ret[d]
    BY DEF TypeOK
<1>3. \A d \in Callers :
        (IF pc'[d] = "done" THEN ret'[d] ELSE Nothing)
            = IF d = c THEN ret'[c] ELSE Answer[d]
    BY <1>1, <1>2 DEF Answer
<1> QED BY <1>3 DEF Answer

\* Each step of Do is a step of the promise, or invisible to it.
LEMMA NextRefines == IInv /\ [Next]_vars => [Promise!Next]_(Promise!abstractVars)
<1> SUFFICES ASSUME IInv, [Next]_vars
             PROVE  Promise!Next \/ UNCHANGED Promise!abstractVars
    OBVIOUS
<1>0. TypeOK /\ EntriesAreOwned /\ ResultsAreHandedOver /\ WaitersKnowTheirCall
    BY DEF IInv
<1>1. ASSUME NEW c \in Callers, Join(c) PROVE Promise!Board(c, key[c])
    <2>1. Cargo' = Cargo /\ Answer' = Answer
        BY <1>0, <1>1 DEF Join, Cargo, Answer, TypeOK
    <2> QED
        BY <1>0, <1>1, <2>1 DEF Join, Promise!Board, WaitersKnowTheirCall
<1>2. ASSUME NEW c \in Callers, Lead(c) PROVE Promise!TakeOff(c, key[c])
    <2>1. Cargo' = Cargo /\ Answer' = Answer
        BY <1>0, <1>2 DEF Lead, Cargo, Answer, TypeOK
    <2> QED
        BY <1>0, <1>2, <2>1 DEF Lead, Promise!TakeOff, WaitersKnowTheirCall
<1>3. ASSUME NEW c \in Callers,
             FnPanics(c) \/ AssignResult(c) \/ \E o \in Outcomes : FnReturns(c, o)
      PROVE  UNCHANGED Promise!abstractVars
    <2>1. Cargo' = Cargo
        BY <1>0, <1>3
           DEF FnPanics, AssignResult, FnReturns, Cargo, TypeOK,
               ResultsAreHandedOver
    <2>2. Answer' = Answer
        BY <1>0, <1>3 DEF FnPanics, AssignResult, FnReturns, Answer, TypeOK
    <2> QED
        BY <1>3, <2>1, <2>2
           DEF FnPanics, AssignResult, FnReturns, Promise!abstractVars
<1>4. ASSUME NEW c \in Callers, CloseDone(c)
      PROVE \E o \in Outcomes : Promise!Land(c, o)
    <2>1. Cargo' = [Cargo EXCEPT ![c] = result[c]]
        BY <1>0, <1>4 DEF CloseDone, Cargo, TypeOK
    <2>2. Answer' = Answer
        BY <1>0, <1>4 DEF CloseDone, Answer, TypeOK
    <2>3. Cargo[c] = Nothing /\ result[c] \in Outcomes /\ joined[c] = c
        BY <1>0, <1>4
           DEF CloseDone, Cargo, ResultsAreHandedOver, EntriesAreOwned, Leading
    <2> QED BY <1>4, <2>1, <2>2, <2>3 DEF CloseDone, Promise!Land
<1>5. ASSUME NEW c \in Callers, Cleanup(c) PROVE Promise!Clear(c, key[c])
    <2>1. Answer[c] = Nothing /\ Answer' = [Answer EXCEPT ![c] = ret'[c]]
        BY <1>0, <1>5, AnswerOf DEF Cleanup
    <2>2. Cargo' = Cargo
        BY <1>5 DEF Cleanup, Cargo
    <2>3. Cargo[c] = ret'[c] /\ Cargo[c] # Nothing
        BY <1>0, <1>5, CoalescerAssumption
           DEF Cleanup, Cargo, ResultsAreHandedOver
    <2>4. pending[key[c]] = c
        BY <1>0, <1>5 DEF Cleanup, EntriesAreOwned, Leading
    <2> QED BY <1>5, <2>1, <2>2, <2>3, <2>4 DEF Cleanup, Promise!Clear
<1>6. ASSUME NEW c \in Callers, Wake(c) PROVE Promise!Unload(c)
    <2>1. joined[c] \in Callers /\ joined[c] # c
        BY <1>0, <1>6 DEF Wake, WaitersKnowTheirCall, TypeOK
    <2>2. Cargo[joined[c]] = result[joined[c]] /\ Cargo[joined[c]] # Nothing
        BY <1>0, <1>6, <2>1, CoalescerAssumption
           DEF Wake, Cargo, ResultsAreHandedOver
    <2>3. Answer[c] = Nothing /\ Answer' = [Answer EXCEPT ![c] = ret'[c]]
        BY <1>0, <1>6, AnswerOf DEF Wake
    <2>4. Cargo' = Cargo /\ ret'[c] = result[joined[c]]
        BY <1>0, <1>6 DEF Wake, Cargo, TypeOK
    <2> QED
        BY <1>6, <2>1, <2>2, <2>3, <2>4, CoalescerAssumption
           DEF Wake, Promise!Unload
<1>7. ASSUME NEW c \in Callers, WaitTimesOut(c) PROVE Promise!GiveUp(c)
    <2>1. Answer[c] = Nothing /\ Answer' = [Answer EXCEPT ![c] = ret'[c]]
        BY <1>0, <1>7, AnswerOf DEF WaitTimesOut
    <2>2. Cargo' = Cargo /\ ret'[c] = TimedOut
        BY <1>0, <1>7 DEF WaitTimesOut, Cargo, TypeOK
    <2>3. joined[c] # Nobody /\ joined[c] # c
        BY <1>0, <1>7 DEF WaitTimesOut, WaitersKnowTheirCall
    <2> QED BY <1>7, <2>1, <2>2, <2>3 DEF WaitTimesOut, Promise!GiveUp
<1>8. CASE UNCHANGED vars
    BY <1>8 DEF vars, Promise!abstractVars, Cargo, Answer
<1>9. \A c \in Callers : key[c] \in Keys
    BY <1>0 DEF TypeOK
<1> QED
    BY <1>1, <1>2, <1>3, <1>4, <1>5, <1>6, <1>7, <1>8, <1>9
       DEF Next, Promise!Next

(***************************************************************************)
(* Do implements the single-flight promise for every number of goroutines  *)
(* and keys.                                                               *)
(***************************************************************************)
THEOREM CoalescerIsSingleFlight == Spec => ImplementsSingleFlight
<1> QED
    BY InitRefines, NextRefines, InvariantHolds, PTL
       DEF Spec, ImplementsSingleFlight, Promise!Spec
=============================================================================
