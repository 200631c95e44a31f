------------------------------ MODULE Coalescer ------------------------------
(***************************************************************************)
(* cache/coalescer.go: Do(key, fn, timeout) merges concurrent calls with   *)
(* the same key.  The map is touched only inside the mutex, and each       *)
(* critical section is one action; fn, the hand-over of its result and the *)
(* waiting happen outside the mutex and are actions of their own.          *)
(*                                                                         *)
(* A caller is one goroutine that runs Do once (one HTTP request), so the  *)
(* *coalesceCall it may create is named by the caller itself.              *)
(***************************************************************************)
CONSTANTS
    Callers, Keys, Outcomes,
    TimedOut,     \* errCoalesceTimeout
    Nobody,       \* no call object
    Nothing,      \* val and err not assigned yet
    FnMayPanic    \* whether fn may panic (server/recovery.go absorbs it)

ASSUME CoalescerAssumption ==
    /\ Nobody \notin Callers
    /\ Nothing \notin Outcomes \cup {TimedOut}
    /\ FnMayPanic \in BOOLEAN

VARIABLES
    pending,   \* Coalescer.pending: key -> the call in flight
    result,    \* val and err of the call that a caller created
    closed,    \* whether the done channel of that call is closed
    pc,        \* where in Do a caller is
    key,       \* its argument
    joined,    \* the call it leads or waits for
    ret        \* fn's result while it leads, then what Do returns

vars == <<pending, result, closed, pc, key, joined, ret>>

Pcs == {"idle", "waiting", "running", "returned_fn", "assigned", "closed",
        "done", "panicked"}

\* The caller created the call object and has not returned from Do.
Leading(c) == pc[c] \in {"running", "returned_fn", "assigned", "closed"}

Init ==
    /\ pending = [k \in Keys |-> Nobody]
    /\ result = [c \in Callers |-> Nothing]
    /\ closed = [c \in Callers |-> FALSE]
    /\ pc = [c \in Callers |-> "idle"]
    /\ key \in [Callers -> Keys]
    /\ joined = [c \in Callers |-> Nobody]
    /\ ret = [c \in Callers |-> Nothing]

\* Faulty variants, for checking that the properties can fail; no
\* specification uses them.  Wake and CloseDone too early, a delete from the map
\* before close(done), and a waiter without a timer.
WakeEarly(c) ==
    /\ pc[c] = "waiting"
    /\ ret' = [ret EXCEPT ![c] = result[joined[c]]]
    /\ pc' = [pc EXCEPT ![c] = "done"]
    /\ UNCHANGED <<pending, result, closed, key, joined>>

CloseEarly(c) ==
    /\ pc[c] = "returned_fn"
    /\ closed' = [closed EXCEPT ![c] = TRUE]
    /\ pc' = [pc EXCEPT ![c] = "closed"]
    /\ UNCHANGED <<pending, result, key, joined, ret>>

DeleteEarly(c) ==
    /\ pc[c] = "returned_fn"
    /\ result' = [result EXCEPT ![c] = ret[c]]
    /\ pending' = [pending EXCEPT ![key[c]] = Nobody]
    /\ pc' = [pc EXCEPT ![c] = "assigned"]
    /\ UNCHANGED <<closed, key, joined, ret>>

WaitForever(c) == pc[c] = "gone" /\ UNCHANGED vars

\* The key is in flight: release the lock and wait for that call.
Join(c) ==
    /\ pc[c] = "idle"
    /\ pending[key[c]] # Nobody
    /\ joined' = [joined EXCEPT ![c] = pending[key[c]]]
    /\ pc' = [pc EXCEPT ![c] = "waiting"]
    /\ UNCHANGED <<pending, result, closed, key, ret>>

\* The key is free: publish a new call under the lock and go on to run fn.
Lead(c) ==
    /\ pc[c] = "idle"
    /\ pending[key[c]] = Nobody
    /\ pending' = [pending EXCEPT ![key[c]] = c]
    /\ joined' = [joined EXCEPT ![c] = c]
    /\ pc' = [pc EXCEPT ![c] = "running"]
    /\ UNCHANGED <<result, closed, key, ret>>

FnReturns(c, o) ==
    /\ pc[c] = "running"
    /\ ret' = [ret EXCEPT ![c] = o]
    /\ pc' = [pc EXCEPT ![c] = "returned_fn"]
    /\ UNCHANGED <<pending, result, closed, key, joined>>

\* fn panics: Do has no deferred clean-up, so neither close nor delete runs.
FnPanics(c) ==
    /\ FnMayPanic
    /\ pc[c] = "running"
    /\ pc' = [pc EXCEPT ![c] = "panicked"]
    /\ UNCHANGED <<pending, result, closed, key, joined, ret>>

AssignResult(c) ==
    /\ pc[c] = "returned_fn"
    /\ result' = [result EXCEPT ![c] = ret[c]]
    /\ pc' = [pc EXCEPT ![c] = "assigned"]
    /\ UNCHANGED <<pending, closed, key, joined, ret>>

CloseDone(c) ==
    /\ pc[c] = "assigned"
    /\ closed' = [closed EXCEPT ![c] = TRUE]
    /\ pc' = [pc EXCEPT ![c] = "closed"]
    /\ UNCHANGED <<pending, result, key, joined, ret>>

Cleanup(c) ==
    /\ pc[c] = "closed"
    /\ pending' = [pending EXCEPT ![key[c]] = Nobody]
    /\ pc' = [pc EXCEPT ![c] = "done"]
    /\ UNCHANGED <<result, closed, key, joined, ret>>

\* The select's first branch: the call it waits for is done.
Wake(c) ==
    /\ pc[c] = "waiting"
    /\ closed[joined[c]]
    /\ ret' = [ret EXCEPT ![c] = result[joined[c]]]
    /\ pc' = [pc EXCEPT ![c] = "done"]
    /\ UNCHANGED <<pending, result, closed, key, joined>>

\* The select's second branch; with both ready the choice is arbitrary.
WaitTimesOut(c) ==
    /\ pc[c] = "waiting"
    /\ ret' = [ret EXCEPT ![c] = TimedOut]
    /\ pc' = [pc EXCEPT ![c] = "done"]
    /\ UNCHANGED <<pending, result, closed, key, joined>>

Next ==
    \E c \in Callers :
        \/ Join(c) \/ Lead(c)
        \/ \E o \in Outcomes : FnReturns(c, o)
        \/ FnPanics(c) \/ AssignResult(c) \/ CloseDone(c) \/ Cleanup(c)
        \/ Wake(c) \/ WaitTimesOut(c)

Spec == Init /\ [][Next]_vars

(***************************************************************************)
(* A goroutine that can run does run, fn returns or panics (the upstream   *)
(* client has a time limit) and a timer that was started fires.  Which     *)
(* outcome fn has, and whether a request arrives at all, is left open.     *)
(***************************************************************************)
Fairness ==
    \A c \in Callers :
        /\ WF_vars(FnPanics(c) \/ \E o \in Outcomes : FnReturns(c, o))
        /\ WF_vars(AssignResult(c)) /\ WF_vars(CloseDone(c))
        /\ WF_vars(Cleanup(c))
        /\ WF_vars(Wake(c) \/ WaitTimesOut(c))

FairSpec == Spec /\ Fairness
-----------------------------------------------------------------------------
TypeOK ==
    /\ pending \in [Keys -> Callers \cup {Nobody}]
    /\ result \in [Callers -> Outcomes \cup {Nothing}]
    /\ closed \in [Callers -> BOOLEAN]
    /\ pc \in [Callers -> Pcs]
    /\ key \in [Callers -> Keys]
    /\ joined \in [Callers -> Callers \cup {Nobody}]
    /\ ret \in [Callers -> Outcomes \cup {Nothing, TimedOut}]

(***************************************************************************)
(* Two goroutines never execute for one key at the same time: between the  *)
(* entry into the map and its removal the call object belongs to one       *)
(* caller, whatever the others do in the windows without the lock.         *)
(***************************************************************************)
OneExecutorPerKey ==
    \A c, d \in Callers :
        Leading(c) /\ Leading(d) /\ key[c] = key[d] => c = d

(***************************************************************************)
(* A caller that waited returns the result of an execution for its own key *)
(* that has finished, or the timeout error; never the zero value of a call *)
(* whose result is not assigned, and never another key's result.           *)
(***************************************************************************)
WaitersShareTheResult ==
    \A c \in Callers :
        pc[c] = "done" /\ joined[c] # c /\ ret[c] # TimedOut =>
            /\ key[joined[c]] = key[c]
            /\ ret[c] = ret[joined[c]]
            /\ ret[c] \in Outcomes

(***************************************************************************)
(* While somebody waits for a call that is not done, the map still has     *)
(* that call: whoever comes later waits with them instead of executing     *)
(* again, and its executor is on its way to close(done), unless fn         *)
(* panicked, which blocks the key for good (no deferred clean-up).         *)
(***************************************************************************)
UndoneCallsStayInTheMap ==
    \A c \in Callers :
        pc[c] = "waiting" /\ ~closed[joined[c]] =>
            /\ pending[key[c]] = joined[c]
            /\ Leading(joined[c]) \/ (FnMayPanic /\ pc[joined[c]] = "panicked")

(***************************************************************************)
(* Everyone who enters Do comes back, also when the executor panics and    *)
(* leaves the done channel open for ever: the wait is bounded by a timer.  *)
(* And a key that is in flight becomes free again, so that a later request *)
(* for it reaches the upstream, unless fn panicked while its executor held *)
(* it.                                                                     *)
(***************************************************************************)
EveryCallReturns ==
    \A c \in Callers :
        /\ pc[c] \in {"waiting", "running"} ~> pc[c] \in {"done", "panicked"}
        /\ \A k \in Keys : pending[k] = c ~> pending[k] = Nobody \/ pc[c] = "panicked"

\* The promise, with the call objects mapped to flights.
Cargo == [c \in Callers |-> IF closed[c] THEN result[c] ELSE Nothing]
Answer == [c \in Callers |-> IF pc[c] = "done" THEN ret[c] ELSE Nothing]
Promise == INSTANCE SingleFlight WITH
    leader <- pending, cargo <- Cargo, flight <- joined, answer <- Answer

\* Do implements the single-flight promise.
ImplementsSingleFlight == Promise!Spec
=============================================================================
