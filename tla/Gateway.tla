------------------------------- MODULE Gateway -------------------------------
(***************************************************************************)
(* The process around the handlers: the middleware chain of BuildHandler   *)
(* (server/shedding.go, auth.go, cors.go, recovery.go, middleware.go, and  *)
(* MetricsMiddleware with its labelled counters and its logger in          *)
(* observability/), graceful shutdown (server/graceful.go) and the state   *)
(* file (persistence/store.go), saved by a timer and by the shutdown.      *)
(***************************************************************************)
EXTENDS Integers, FiniteSets

CONSTANTS
    Requests,
    Limits,        \* limits of the load shedder
    LogBuffer,     \* capacity of the logger's channel (4096)
    AuthEnabled,   \* auth.enabled, with at least one key
    MaxCrashes     \* bound

ASSUME GatewayAssumption ==
    /\ IsFiniteSet(Requests) /\ Limits \subseteq Nat \ {0} /\ LogBuffer \in Nat
    /\ AuthEnabled \in BOOLEAN /\ MaxCrashes \in Nat

VARIABLES
    process,       \* serving, stopping (onStop), draining, exited or crashed
    crashes,
    place,         \* new, arrived, refusing, admitted, handling, answered, counted,
                   \* leaving, over or cut
    sent,          \* the group of the status that the client got
    status,        \* and of the one that MetricsMiddleware saw
    counter,       \* which counter object get returned to the request
    max, inFlight, shed, \* LoadShedder
    active,        \* ActiveConnections
    label,         \* the counter object in the map of RequestsByProvider; 0: none
    byProvider,    \* object -> value
    byStatus, slo, \* status group -> RequestsByStatus; good and bad requests
    logger,        \* lines queued, written and dropped
    lock,          \* Store.mu
    saver,         \* AutoSave's and onStop's Save: off, torn (writing), written; done or failed
    tmp, disk      \* whole or not, and what the process did at the snapshot

requestVars == <<place, sent, status, counter>>
measures == <<active, label, byProvider, byStatus, slo, logger>>
shedder == <<max, inFlight, shed>>
storeVars == <<lock, saver, tmp, disk>>
vars == <<process, crashes, requestVars, shedder, measures, storeVars>>

Groups == 2..5
statusGroup(s) == IF s < 300 THEN 2 ELSE IF s < 400 THEN 3 ELSE IF s < 500 THEN 4 ELSE 5
Savers == {"timer", "stop"}
Objects == 1..Cardinality(Requests)
NoFile == [whole |-> TRUE, of |-> "nobody"]

Init ==
    /\ process = "serving" /\ crashes = 0
    /\ place = [r \in Requests |-> "new"]
    /\ sent = [r \in Requests |-> 0] /\ status = [r \in Requests |-> 0]
    /\ counter = [r \in Requests |-> 0]
    /\ max \in Limits /\ inFlight = 0 /\ shed = 0 /\ active = 0
    /\ label = 0 /\ byProvider = [o \in Objects |-> 0]
    /\ byStatus = [g \in Groups |-> 0] /\ slo = [good |-> 0, bad |-> 0]
    /\ logger = [queued |-> 0, written |-> 0, dropped |-> 0]
    /\ lock = "free" /\ saver = [w \in Savers |-> "off"]
    /\ tmp = NoFile /\ disk = NoFile

Running == process \in {"serving", "stopping", "draining"}
Move(r, p) == Running /\ place' = [place EXCEPT ![r] = p]

\* The listener is open until Shutdown, while onStop saves as well.
Arrive(r) ==
    /\ process \in {"serving", "stopping"} /\ place[r] = "new" /\ Move(r, "arrived")
    /\ UNCHANGED <<process, crashes, sent, status, counter, shedder, measures, storeVars>>

-----------------------------------------------------------------------------
\* Faulty variants, here and below: the count compared before it was incremented,
\* a counter made without a second look, a lock kept when a write fails, and a Save
\* without the lock.
AllowComparesOld(r) ==
    /\ place[r] = "arrived"
    /\ inFlight' = inFlight + 1
    /\ Move(r, IF inFlight > max THEN "refusing" ELSE "admitted")
    /\ UNCHANGED <<process, crashes, sent, status, counter, max, shed, measures, storeVars>>

\* LoadShedder.Allow: the request is counted, then compared,
Allow(r) ==
    /\ place[r] = "arrived"
    /\ inFlight' = inFlight + 1
    /\ Move(r, IF inFlight' > max THEN "refusing" ELSE "admitted")
    /\ UNCHANGED <<process, crashes, sent, status, counter, max, shed, measures, storeVars>>

\* and a refused one is taken off again; it is answered outside of the metrics.
Refuse(r) ==
    /\ place[r] = "refusing" /\ Move(r, "over")
    /\ inFlight' = inFlight - 1 /\ shed' = shed + 1 /\ UNCHANGED max
    /\ sent' = [sent EXCEPT ![r] = statusGroup(503)]
    /\ UNCHANGED <<process, crashes, status, counter, measures, storeVars>>

Enter(r) ==
    /\ place[r] = "admitted" /\ Move(r, "handling")
    /\ active' = active + 1
    /\ UNCHANGED <<process, crashes, sent, status, counter, shedder, label, byProvider,
                   byStatus, slo, logger, storeVars>>

\* AuthMiddleware: 200 stands for the call of the next handler.
Authorized(path, token) ==
    CASE ~AuthEnabled \/ path = "public" -> 200
      [] AuthEnabled /\ path = "admin"   -> IF token = "admin" THEN 200 ELSE 403
      [] AuthEnabled /\ path \in {"routing", "other"} -> IF token = "key" THEN 200 ELSE 401

\* What the inner chain answers: CORSMiddleware, AuthMiddleware, the limiter,
\* then the handler; one that panics has begun its answer (200) or not (500), and
\* panicRecoveryMiddleware sets the status.
Calls == [method : {"OPTIONS", "POST"}, path : {"public", "admin", "routing", "other"},
          token : {"none", "key", "admin"}, limited : BOOLEAN,
          handler : {200, 500}, panics : BOOLEAN]
Both(s) == [sent |-> statusGroup(s), status |-> statusGroup(s)]
Respond(q) ==
    IF q.method = "OPTIONS" THEN Both(204)
    ELSE IF Authorized(q.path, q.token) # 200 THEN Both(Authorized(q.path, q.token))
    ELSE IF q.limited THEN Both(429)
    ELSE [sent |-> statusGroup(q.handler), status |-> statusGroup(IF q.panics THEN 500 ELSE q.handler)]
Responses == {Respond(q) : q \in Calls}

Handle(r) ==
    /\ place[r] = "handling" /\ Move(r, "answered")
    /\ \E a \in Responses : /\ sent' = [sent EXCEPT ![r] = a.sent]
                            /\ status' = [status EXCEPT ![r] = a.status]
    /\ UNCHANGED <<process, crashes, counter, shedder, measures, storeVars>>

\* labeledCounter.get: a look under the read lock ...
GetFast(r) ==
    /\ place[r] = "answered" /\ Move(r, "counted")
    /\ counter' = [counter EXCEPT ![r] = label]
    /\ UNCHANGED <<process, crashes, sent, status, shedder, measures, storeVars>>

GetSlowUnchecked(r) ==
    /\ place[r] = "counted" /\ counter[r] = 0 /\ Running
    /\ label' = CHOOSE o \in Objects : \A s \in Requests : counter[s] # o
    /\ counter' = [counter EXCEPT ![r] = label']
    /\ UNCHANGED <<process, crashes, place, sent, status, shedder, active, byProvider,
                   byStatus, slo, logger, storeVars>>

\* ... and if there was none another one under the lock, where it is made.
GetSlow(r) ==
    /\ place[r] = "counted" /\ counter[r] = 0 /\ Running
    /\ label' = IF label = 0 THEN CHOOSE o \in Objects : \A s \in Requests : counter[s] # o ELSE label
    /\ counter' = [counter EXCEPT ![r] = label']
    /\ UNCHANGED <<process, crashes, place, sent, status, shedder, active, byProvider,
                   byStatus, slo, logger, storeVars>>

\* StructuredLogger: an error is written at once, another line queued or dropped.
Log(g) == IF g = 5 THEN [logger EXCEPT !.written = @ + 1]
          ELSE IF logger.queued < LogBuffer THEN [logger EXCEPT !.queued = @ + 1]
          ELSE [logger EXCEPT !.dropped = @ + 1]

\* The rest of the middleware; RequestsByStatus is incremented twice.
Record(r) ==
    /\ place[r] = "counted" /\ counter[r] # 0 /\ Move(r, "leaving")
    /\ slo' = IF status[r] = 5 THEN [slo EXCEPT !.bad = @ + 1] ELSE [slo EXCEPT !.good = @ + 1]
    /\ byProvider' = [byProvider EXCEPT ![counter[r]] = @ + 1]
    /\ byStatus' = [byStatus EXCEPT ![status[r]] = @ + 2]
    /\ logger' = Log(status[r])
    /\ UNCHANGED <<process, crashes, sent, status, counter, shedder, active, label, storeVars>>

\* The deferred Dec and Done.
Leave(r) ==
    /\ place[r] = "leaving" /\ Move(r, "over")
    /\ active' = active - 1 /\ inFlight' = inFlight - 1
    /\ UNCHANGED <<process, crashes, sent, status, counter, max, shed, label, byProvider,
                   byStatus, slo, logger, storeVars>>

WriteLog ==
    /\ Running /\ logger.queued > 0
    /\ logger' = [logger EXCEPT !.queued = @ - 1, !.written = @ + 1]
    /\ UNCHANGED <<process, crashes, requestVars, shedder, active, label, byProvider,
                   byStatus, slo, storeVars>>
-----------------------------------------------------------------------------
\* Store.Save by the timer or by onStop, under the lock: the temporary file is
\* written, which may fail,
SaveUnlocked(w) ==
    /\ Running /\ saver[w] = "off" /\ (w = "stop" => process = "stopping")
    /\ saver' = [saver EXCEPT ![w] = "torn"]
    /\ tmp' = [whole |-> FALSE, of |-> process]
    /\ UNCHANGED <<process, crashes, requestVars, shedder, measures, lock, disk>>

Save(w) ==
    /\ Running /\ saver[w] = "off" /\ lock = "free" /\ (w = "stop" => process = "stopping")
    /\ lock' = w /\ saver' = [saver EXCEPT ![w] = "torn"]
    /\ tmp' = [whole |-> FALSE, of |-> process]
    /\ UNCHANGED <<process, crashes, requestVars, shedder, measures, disk>>

Finished(w, how) == IF w = "timer" THEN "off" ELSE how

WrittenKeepsLock(w) ==
    /\ Running /\ saver[w] = "torn"
    /\ \/ saver' = [saver EXCEPT ![w] = "written"] /\ tmp' = [tmp EXCEPT !.whole = TRUE]
       \/ saver' = [saver EXCEPT ![w] = Finished(w, "failed")] /\ UNCHANGED tmp
    /\ UNCHANGED <<process, crashes, requestVars, shedder, measures, lock, disk>>

Written(w) ==
    /\ Running /\ saver[w] = "torn"
    /\ \/ /\ saver' = [saver EXCEPT ![w] = "written"] /\ tmp' = [tmp EXCEPT !.whole = TRUE]
          /\ UNCHANGED lock
       \/ /\ saver' = [saver EXCEPT ![w] = Finished(w, "failed")] /\ lock' = "free"
          /\ UNCHANGED tmp
    /\ UNCHANGED <<process, crashes, requestVars, shedder, measures, disk>>

\* and renamed, which may fail, too; then it stays behind for the next Save.
Rename(w) ==
    /\ Running /\ saver[w] = "written" /\ lock' = "free"
    /\ \/ /\ disk' = tmp /\ tmp' = NoFile
          /\ saver' = [saver EXCEPT ![w] = Finished(w, "done")]
       \/ /\ saver' = [saver EXCEPT ![w] = Finished(w, "failed")]
          /\ UNCHANGED <<tmp, disk>>
    /\ UNCHANGED <<process, crashes, requestVars, shedder, measures>>

\* ListenAndServe: after the signal onStop, then Shutdown, which waits for the
\* requests; at its deadline, or when they are done, the process ends.
Signal ==
    /\ process = "serving" /\ process' = "stopping"
    /\ UNCHANGED <<crashes, requestVars, shedder, measures, storeVars>>

Shutdown ==
    /\ process = "stopping" /\ saver["stop"] \in {"done", "failed"} /\ process' = "draining"
    /\ UNCHANGED <<crashes, requestVars, shedder, measures, storeVars>>

Idle == \A r \in Requests : place[r] \in {"new", "over", "cut"}

Drained ==
    /\ process = "draining" /\ Idle /\ process' = "exited"
    /\ UNCHANGED <<crashes, requestVars, shedder, measures, storeVars>>

CutOff == place' = [r \in Requests |-> IF place[r] \in {"new", "over"} THEN place[r] ELSE "cut"]

Deadline ==
    /\ process = "draining" /\ ~Idle /\ process' = "exited" /\ CutOff
    /\ UNCHANGED <<crashes, sent, status, counter, shedder, measures, storeVars>>

Crash ==
    /\ Running /\ crashes < MaxCrashes /\ crashes' = crashes + 1
    /\ process' = "crashed" /\ CutOff
    /\ UNCHANGED <<sent, status, counter, shedder, measures, storeVars>>

\* main again: Restore reads the state file, whose contents only reach the log.
Restart ==
    /\ process = "crashed" /\ process' = "serving"
    /\ inFlight' = 0 /\ shed' = 0 /\ active' = 0
    /\ label' = 0 /\ byProvider' = [o \in Objects |-> 0]
    /\ byStatus' = [g \in Groups |-> 0] /\ slo' = [good |-> 0, bad |-> 0]
    /\ logger' = [queued |-> 0, written |-> 0, dropped |-> 0]
    /\ lock' = "free" /\ saver' = [w \in Savers |-> "off"]
    /\ place' = [r \in Requests |-> IF place[r] = "over" THEN "cut" ELSE place[r]]
    /\ counter' = [r \in Requests |-> 0]
    /\ UNCHANGED <<crashes, max, sent, status, tmp, disk>>

Serve(r) == Allow(r) \/ Refuse(r) \/ Enter(r) \/ Handle(r) \/ GetFast(r) \/ GetSlow(r)
            \/ Record(r) \/ Leave(r)
Saving(w) == Save(w) \/ Written(w) \/ Rename(w)
Stopping == Shutdown \/ Drained \/ Deadline

Next ==
    \/ \E r \in Requests : Arrive(r) \/ Serve(r)
    \/ \E w \in Savers : Saving(w)
    \/ WriteLog \/ Signal \/ Stopping \/ Crash \/ Restart

Spec == Init /\ [][Next]_vars

\* Handlers end (the upstream calls and the writes to the client have timeouts), a
\* Save ends, the mutex is not taken for ever by the timer (sync.Mutex lets nobody
\* starve), and Shutdown returns at its deadline at the latest.
Fairness ==
    /\ \A r \in Requests : WF_vars(Serve(r))
    /\ SF_vars(Save("stop")) /\ \A w \in Savers : WF_vars(Written(w) \/ Rename(w))
    /\ WF_vars(Stopping)

FairSpec == Spec /\ Fairness
-----------------------------------------------------------------------------
At(places) == {r \in Requests : place[r] \in places}
Measuring == {"handling", "answered", "counted", "leaving"}

TypeOK ==
    /\ process \in {"serving", "stopping", "draining", "exited", "crashed"}
    /\ place \in [Requests -> {"new", "arrived", "refusing", "admitted", "over", "cut"} \cup Measuring]
    /\ label \in 0..Cardinality(Requests) /\ counter \in [Requests -> 0..Cardinality(Requests)]
    /\ lock \in {"free"} \cup Savers

(***************************************************************************)
(* The shedder's counter and the gauge follow the requests exactly, on     *)
(* every way through the middleware, and no interleaving of Allow, its     *)
(* correction and Done lets more than max requests through.                *)
(***************************************************************************)
NeverOverloaded ==
    /\ TypeOK
    /\ Running => /\ Cardinality(At({"admitted"} \cup Measuring)) <= max
                  /\ inFlight = Cardinality(At({"refusing", "admitted"} \cup Measuring))
                  /\ active = Cardinality(At(Measuring))

(***************************************************************************)
(* Every admitted request is measured once, also if its handler panicked   *)
(* and if another request makes the labelled counter at the same time: in  *)
(* the counter that the map holds, in the SLO monitor, and in the log,     *)
(* where lines may be dropped but are counted then.  (RequestsByStatus is  *)
(* incremented twice.)  The status it is measured with is the one sent,    *)
(* except after a panic in the middle of an answer.                        *)
(***************************************************************************)
MeasuredOnce ==
    Running =>
      LET measured == {r \in At({"leaving", "over"}) : status[r] # 0}
          bad == {r \in measured : status[r] = 5}
          n == Cardinality(measured)
      IN  /\ n > 0 => label # 0 /\ byProvider[label] = n
          /\ slo = [good |-> n - Cardinality(bad), bad |-> Cardinality(bad)]
          /\ byStatus[2] + byStatus[3] + byStatus[4] + byStatus[5] = 2 * n
          /\ logger.queued + logger.written + logger.dropped = n
          /\ \A r \in measured : sent[r] # status[r] => sent[r] = 2 /\ status[r] = 5

(***************************************************************************)
(* A crash at any moment of a save, and the saves of the timer and of the  *)
(* shutdown together, leave a whole state file; and after an orderly end   *)
(* it holds a snapshot from after the signal, unless its save failed.      *)
(***************************************************************************)
StateFileIsWhole ==
    /\ disk.whole
    /\ process = "exited" /\ saver["stop"] = "done" => disk.of # "serving"

(***************************************************************************)
(* A signal ends the process, whatever the requests do and whoever saves   *)
(* the state at the time.                                                  *)
(***************************************************************************)
ShutdownEnds == process = "stopping" ~> process \in {"exited", "crashed"}
=============================================================================
