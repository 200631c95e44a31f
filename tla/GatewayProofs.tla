---------------------------- MODULE GatewayProofs ----------------------------
(***************************************************************************)
(* Proofs about Gateway for any number of requests, any limits of the load *)
(* shedder and any log buffer: the state file is whole, the shedder and    *)
(* the gauge follow the requests, and each admitted request is measured    *)
(* once.  The inductive invariant has three layers, one for each.          *)
(*                                                                         *)
(* And about ResponseCache, behind the middleware: its capacity and what   *)
(* a write into a full cache costs.                                        *)
(***************************************************************************)
EXTENDS Gateway, ResponseCache, FiniteSetTheorems, TLAPS

-----------------------------------------------------------------------------
\* Layer 1, the state file.  Whoever is in Save holds the lock; what it has
\* written is whole; and once onStop's Save has begun nobody holds a snapshot
\* from before the signal.
Files == [whole : BOOLEAN, of : {"nobody", "serving", "stopping", "draining"}]
StoreTypes ==
    /\ process \in {"serving", "stopping", "draining", "exited", "crashed"}
    /\ lock \in {"free"} \cup Savers
    /\ saver \in [Savers -> {"off", "torn", "written", "done", "failed"}]
    /\ tmp \in Files /\ disk \in Files

SavesExclude ==
    \A w \in Savers : /\ saver[w] \in {"torn", "written"} <=> lock = w
                      /\ saver[w] = "written" => tmp.whole = TRUE

SnapshotsAreLate ==
    /\ saver["stop"] # "off" => process # "serving"
    /\ saver["stop"] # "off" /\ lock # "free" => tmp.of # "serving"
    /\ saver["stop"] = "done" => disk.of # "serving"

StoreInv == StoreTypes /\ SavesExclude /\ SnapshotsAreLate /\ disk.whole = TRUE

\* Nothing was saved yet.
LEMMA InitStore == Init => StoreInv
<1>1. NoFile \in Files /\ NoFile.whole = TRUE /\ NoFile.of # "serving"
    BY DEF NoFile, Files
<1> QED
    BY <1>1 DEF Init, StoreInv, StoreTypes, SavesExclude, SnapshotsAreLate, Savers

\* Steps of requests and of the logger leave the file alone.
LEMMA NextStore == StoreInv /\ [Next]_vars => StoreInv'
<1> SUFFICES ASSUME StoreInv, [Next]_vars PROVE StoreInv'
    OBVIOUS
<1> USE DEF StoreInv, StoreTypes, SavesExclude, SnapshotsAreLate, Savers
<1>1. ASSUME UNCHANGED <<process, storeVars>> PROVE StoreInv'
    BY <1>1 DEF storeVars
<1>2. ASSUME NEW w \in Savers, Save(w) PROVE StoreInv'
    <2>1. tmp' \in Files /\ tmp'.of = process
        BY <1>2 DEF Save, Files, Running
    <2> QED BY <1>2, <2>1 DEF Save
<1>3. ASSUME NEW w \in Savers, Written(w) PROVE StoreInv'
    <2>1. tmp' \in Files /\ tmp'.of = tmp.of /\ (saver'[w] = "written" => tmp'.whole = TRUE)
        BY <1>3 DEF Written, Finished, Files
    <2> QED BY <1>3, <2>1 DEF Written, Finished
<1>4. ASSUME NEW w \in Savers, Rename(w) PROVE StoreInv'
    <2>1. NoFile \in Files
        BY DEF NoFile, Files
    <2> QED BY <1>4, <2>1 DEF Rename, Finished
<1>5. CASE Signal \/ Shutdown \/ Drained \/ Deadline \/ Crash
    BY <1>5 DEF Signal, Shutdown, Drained, Deadline, Crash, storeVars
<1>6. CASE Restart
    BY <1>6 DEF Restart
<1>7. ASSUME NEW r \in Requests, Arrive(r) \/ Serve(r)
      PROVE  UNCHANGED <<process, storeVars>>
    BY <1>7 DEF Arrive, Serve, Allow, Refuse, Enter, Handle, GetFast, GetSlow,
                Record, Leave
<1>8. CASE WriteLog \/ UNCHANGED vars
    BY <1>1, <1>8 DEF WriteLog, vars
<1> QED
    BY <1>1, <1>2, <1>3, <1>4, <1>5, <1>6, <1>7, <1>8 DEF Next, Saving, Stopping

(***************************************************************************)
(* Whatever a crash interrupts, and however the saves of the timer and of  *)
(* the shutdown follow each other, the state file is whole, and after an   *)
(* orderly end it holds a snapshot from after the signal.                  *)
(***************************************************************************)
THEOREM StateFileSurvives == Spec => []StateFileIsWhole
<1>1. StoreInv => StateFileIsWhole
    BY DEF StoreInv, SnapshotsAreLate, StateFileIsWhole
<1> QED BY <1>1, InitStore, NextStore, PTL DEF Spec
-----------------------------------------------------------------------------
\* Layer 2, the requests.  A process that has ended has none under way; there is
\* one labelled counter at a time; and what a request was answered is known from
\* the end of its handler on.
Places == {"new", "arrived", "refusing", "admitted", "over", "cut"} \cup Measuring

RequestTypes ==
    /\ process \in {"serving", "stopping", "draining", "exited", "crashed"}
    /\ place \in [Requests -> Places]
    /\ label \in 0..Cardinality(Requests) /\ counter \in [Requests -> 0..Cardinality(Requests)]
    /\ sent \in [Requests -> {0} \cup Groups] /\ status \in [Requests -> {0} \cup Groups]

EndedIsIdle == ~Running => Idle

OneCounter == \A r \in Requests : counter[r] \in {0, label}

AnswersAreKnown ==
    \A r \in Requests :
        /\ place[r] \in {"new", "arrived", "refusing", "admitted", "handling"} => status[r] = 0
        /\ place[r] \in {"answered", "counted", "leaving"} => status[r] \in Groups
        /\ status[r] # 0 /\ sent[r] # status[r] => sent[r] = 2 /\ status[r] = 5

RequestInv == RequestTypes /\ EndedIsIdle /\ OneCounter /\ AnswersAreKnown

\* The number of requests is one, and there is a counter object for each.
LEMMA RequestsAreCounted ==
    /\ Cardinality(Requests) \in Nat
    /\ \A r \in Requests : 1 \in Objects
<1>1. IsFiniteSet(Requests) /\ Cardinality(Requests) \in Nat
    BY GatewayAssumption, FS_CardinalityType
<1>2. ASSUME NEW r \in Requests PROVE Cardinality(Requests) # 0
    BY <1>1, <1>2, FS_EmptySet
<1> QED BY <1>1, <1>2 DEF Objects

\* Every way through CORS, authentication, limiter and handler gives a status;
\* only a panic after the answer began makes the measured one another.
LEMMA ResponseStatuses ==
    ASSUME NEW a \in Responses
    PROVE  /\ a.sent \in Groups /\ a.status \in Groups
           /\ a.sent # a.status => a.sent = 2 /\ a.status = 5
<1>1. PICK q \in Calls : a = Respond(q)
    BY DEF Responses
<1>2. \A s \in {200, 204, 401, 403, 429, 500} :
        /\ statusGroup(s) \in Groups
        /\ Both(s).sent = statusGroup(s) /\ Both(s).status = statusGroup(s)
    BY DEF statusGroup, Groups, Both
<1>3. statusGroup(200) = 2 /\ statusGroup(500) = 5
    BY DEF statusGroup
<1>4. Authorized(q.path, q.token) \in {200, 401, 403}
    BY GatewayAssumption DEF Authorized, Calls
<1>5. q.handler \in {200, 500}
    BY DEF Calls
<1>6. CASE q.method = "OPTIONS" \/ Authorized(q.path, q.token) # 200 \/ q.limited
    BY <1>1, <1>2, <1>4, <1>6 DEF Respond
<1>7. CASE ~(q.method = "OPTIONS" \/ Authorized(q.path, q.token) # 200 \/ q.limited)
    <2>1. a = [sent |-> statusGroup(q.handler),
               status |-> statusGroup(IF q.panics THEN 500 ELSE q.handler)]
        BY <1>1, <1>7 DEF Respond
    <2>2. CASE q.panics
        BY <1>2, <1>3, <1>5, <2>1, <2>2
    <2>3. CASE ~q.panics
        BY <1>2, <1>3, <1>5, <2>1, <2>3
    <2> QED BY <2>2, <2>3
<1> QED BY <1>6, <1>7

\* Nobody has arrived.
LEMMA InitRequest == Init => RequestInv
BY RequestsAreCounted
   DEF Init, RequestInv, RequestTypes, Places, EndedIsIdle, Idle, OneCounter, AnswersAreKnown, Groups

\* Each step of the chain, of the shutdown and of a crash.
LEMMA NextRequest == RequestInv /\ [Next]_vars => RequestInv'
<1> SUFFICES ASSUME RequestInv, [Next]_vars PROVE RequestInv'
    OBVIOUS
<1> USE DEF RequestInv, RequestTypes, Places, Measuring, EndedIsIdle, OneCounter,
            AnswersAreKnown, Running, Idle
<1>1. ASSUME UNCHANGED <<process, requestVars, label>> PROVE RequestInv'
    BY <1>1 DEF requestVars
<1>2. ASSUME NEW r \in Requests,
             Arrive(r) \/ Allow(r) \/ Enter(r) \/ Record(r) \/ Leave(r)
      PROVE  RequestInv'
    BY <1>2 DEF Arrive, Allow, Enter, Record, Leave, Move, measures
<1>3. ASSUME NEW r \in Requests, Refuse(r) PROVE RequestInv'
    <2>1. statusGroup(503) \in Groups
        BY DEF statusGroup, Groups
    <2> QED BY <1>3, <2>1 DEF Refuse, Move, measures
<1>4. ASSUME NEW r \in Requests, Handle(r) PROVE RequestInv'
    <2>1. PICK a \in Responses : /\ sent' = [sent EXCEPT ![r] = a.sent]
                                 /\ status' = [status EXCEPT ![r] = a.status]
        BY <1>4 DEF Handle
    <2> QED BY <1>4, <2>1, ResponseStatuses DEF Handle, Move, measures
<1>5. ASSUME NEW r \in Requests, GetFast(r) PROVE RequestInv'
    BY <1>5 DEF GetFast, Move, measures
<1>6. ASSUME NEW r \in Requests, GetSlow(r) PROVE RequestInv'
    <2>1. label = 0 => \E o \in Objects : \A s \in Requests : counter[s] # o
        BY RequestsAreCounted
    <2>2. label' \in 0..Cardinality(Requests) /\ (label # 0 => label' = label)
        <3>1. CASE label = 0
            <4>1. label' \in Objects
                BY <1>6, <2>1, <3>1 DEF GetSlow
            <4> QED BY <3>1, <4>1, RequestsAreCounted DEF Objects
        <3>2. CASE label # 0
            BY <1>6, <3>2 DEF GetSlow
        <3> QED BY <3>1, <3>2
    <2>3. counter' = [counter EXCEPT ![r] = label']
        BY <1>6 DEF GetSlow
    <2>4. OneCounter'
        BY <2>2, <2>3
    <2> QED BY <1>6, <2>2, <2>3, <2>4 DEF GetSlow
<1>7. CASE Signal \/ Shutdown \/ Drained
    BY <1>7 DEF Signal, Shutdown, Drained, requestVars, measures
<1>8. CASE Deadline \/ Crash
    BY <1>8 DEF Deadline, Crash, CutOff, measures
<1>9. CASE Restart
    BY <1>9, RequestsAreCounted DEF Restart
<1>10. ASSUME NEW w \in Savers, Saving(w) PROVE RequestInv'
    BY <1>1, <1>10 DEF Saving, Save, Written, Rename, measures
<1>11. CASE WriteLog \/ UNCHANGED vars
    BY <1>1, <1>11 DEF WriteLog, vars, measures
<1> QED
    BY <1>2, <1>3, <1>4, <1>5, <1>6, <1>7, <1>8, <1>9, <1>10, <1>11
       DEF Next, Serve, Stopping
-----------------------------------------------------------------------------
\* Layer 3, the shedder and the gauge.
Admitted == {"admitted"} \cup Measuring
Counted == {"refusing"} \cup Admitted

CountersFollow ==
    /\ max \in Nat
    /\ Running => /\ Cardinality(At(Admitted)) <= max
                  /\ inFlight = Cardinality(At(Counted))
                  /\ active = Cardinality(At(Measuring))

\* The requests at some places are finitely many, and fewer than those at more.
LEMMA AtIsFinite ==
    /\ \A S : At(S) \subseteq Requests /\ IsFiniteSet(At(S)) /\ Cardinality(At(S)) \in Nat
    /\ Cardinality(At(Admitted)) <= Cardinality(At(Counted))
<1>1. \A S : At(S) \in SUBSET Requests
    BY DEF At
<1>2. \A S : IsFiniteSet(At(S)) /\ Cardinality(At(S)) \in Nat
    BY <1>1, GatewayAssumption, FS_Subset, FS_CardinalityType
<1>3. At(Admitted) \in SUBSET At(Counted)
    BY DEF At, Counted
<1> QED BY <1>1, <1>2, <1>3, FS_Subset

\* A request that moves into places, out of them, or neither.
LEMMA AtMoves ==
    ASSUME place \in [Requests -> Places], NEW r \in Requests, NEW p,
           place' = [place EXCEPT ![r] = p], NEW S
    PROVE  /\ p \in S /\ place[r] \notin S => Cardinality(At(S)') = Cardinality(At(S)) + 1
           /\ p \notin S /\ place[r] \in S => Cardinality(At(S)') = Cardinality(At(S)) - 1
           /\ (p \in S <=> place[r] \in S) => At(S)' = At(S)
<1>1. p \in S => At(S)' = At(S) \cup {r}
    BY DEF At
<1>2. p \notin S => At(S)' = At(S) \ {r}
    BY DEF At
<1>3. r \in At(S) <=> place[r] \in S
    BY DEF At
<1>4. IsFiniteSet(At(S))
    BY AtIsFinite
<1>5. CASE p \in S /\ place[r] \notin S
    BY <1>1, <1>3, <1>4, <1>5, FS_AddElement
<1>6. CASE p \notin S /\ place[r] \in S
    BY <1>2, <1>3, <1>4, <1>6, FS_RemoveElement
<1>7. CASE p \in S <=> place[r] \in S
    BY <1>1, <1>2, <1>3, <1>7
<1> QED BY <1>5, <1>6, <1>7

\* Which places count for what.
LEMMA PlacesCount ==
    /\ \A p \in {"new", "arrived", "over", "cut"} :
          p \notin Measuring /\ p \notin Admitted /\ p \notin Counted
    /\ "refusing" \in Counted /\ "refusing" \notin Admitted /\ "refusing" \notin Measuring
    /\ "admitted" \in Counted /\ "admitted" \in Admitted /\ "admitted" \notin Measuring
    /\ \A p \in Measuring : p \in Admitted /\ p \in Counted
BY DEF Measuring, Admitted, Counted

\* Without requests under way nobody is counted.
LEMMA IdleIsEmpty ==
    ASSUME Idle PROVE At(Admitted) = {} /\ At(Counted) = {} /\ At(Measuring) = {}
BY DEF Idle, At, Admitted, Counted, Measuring

\* The counters of a new process.
LEMMA InitCounters == Init => CountersFollow
<1> SUFFICES ASSUME Init PROVE CountersFollow
    OBVIOUS
<1>1. Idle
    BY DEF Init, Idle
<1> QED BY <1>1, IdleIsEmpty, FS_EmptySet, GatewayAssumption DEF Init, CountersFollow

\* Each request is counted in and out, on every way through the chain.
LEMMA NextCounters == RequestInv /\ CountersFollow /\ [Next]_vars => CountersFollow'
<1> SUFFICES ASSUME RequestInv, CountersFollow, [Next]_vars PROVE CountersFollow'
    OBVIOUS
<1>0. place \in [Requests -> Places] /\ EndedIsIdle
    BY DEF RequestInv, RequestTypes
<1> USE DEF CountersFollow
<1>1. ASSUME UNCHANGED <<place, shedder, active>>, Running' => Running
      PROVE  CountersFollow'
    BY <1>1 DEF shedder, At
<1>2. ASSUME NEW r \in Requests,
             Arrive(r) \/ Handle(r) \/ GetFast(r) \/ Record(r)
      PROVE  CountersFollow'
    <2>1. PICK p \in Places : /\ place' = [place EXCEPT ![r] = p]
                              /\ \A S \in {Admitted, Counted, Measuring} :
                                    p \in S <=> place[r] \in S
        BY <1>2 DEF Arrive, Handle, GetFast, Record, Move, Places, Admitted, Counted,
                    Measuring
    <2>2. /\ At(Admitted)' = At(Admitted) /\ At(Counted)' = At(Counted)
          /\ At(Measuring)' = At(Measuring)
        BY <1>0, <2>1, AtMoves
    <2>3. UNCHANGED <<process, max, inFlight, active>>
        BY <1>2 DEF Arrive, Handle, GetFast, Record, shedder, measures
    <2> QED BY <2>2, <2>3 DEF Running
<1>3. ASSUME NEW r \in Requests, Allow(r) PROVE CountersFollow'
    <2>1. /\ place[r] = "arrived" /\ inFlight' = inFlight + 1 /\ Running
          /\ UNCHANGED <<process, max, active>>
          /\ place' = [place EXCEPT ![r] = IF inFlight' > max THEN "refusing" ELSE "admitted"]
        BY <1>3 DEF Allow, Move, measures
    <2>2. CASE inFlight' > max
        <3>1. /\ At(Admitted)' = At(Admitted) /\ At(Measuring)' = At(Measuring)
              /\ Cardinality(At(Counted)') = Cardinality(At(Counted)) + 1
            BY <1>0, <2>1, <2>2, AtMoves, PlacesCount
        <3> QED BY <2>1, <3>1
    <2>3. CASE ~(inFlight' > max)
        <3>1. /\ At(Measuring)' = At(Measuring)
              /\ Cardinality(At(Admitted)') = Cardinality(At(Admitted)) + 1
              /\ Cardinality(At(Counted)') = Cardinality(At(Counted)) + 1
            BY <1>0, <2>1, <2>3, AtMoves, PlacesCount
        <3> QED BY <2>1, <2>3, <3>1, AtIsFinite
    <2> QED BY <2>2, <2>3
<1>4. ASSUME NEW r \in Requests, Refuse(r) PROVE CountersFollow'
    <2>1. /\ At(Admitted)' = At(Admitted) /\ At(Measuring)' = At(Measuring)
          /\ Cardinality(At(Counted)') = Cardinality(At(Counted)) - 1
        <3>1. place[r] = "refusing" /\ place' = [place EXCEPT ![r] = "over"]
            BY <1>4 DEF Refuse, Move
        <3>2. At(Admitted)' = At(Admitted) /\ At(Measuring)' = At(Measuring)
            BY <1>0, <3>1, AtMoves, PlacesCount
        <3>3. Cardinality(At(Counted)') = Cardinality(At(Counted)) - 1
            BY <1>0, <3>1, AtMoves, PlacesCount
        <3> QED BY <3>2, <3>3
    <2> QED BY <1>4, <2>1 DEF Refuse, Move, Running, measures
<1>5. ASSUME NEW r \in Requests, Enter(r) PROVE CountersFollow'
    <2>1. /\ At(Admitted)' = At(Admitted) /\ At(Counted)' = At(Counted)
          /\ Cardinality(At(Measuring)') = Cardinality(At(Measuring)) + 1
        <3>1. place[r] = "admitted" /\ place' = [place EXCEPT ![r] = "handling"]
            BY <1>5 DEF Enter, Move
        <3>2. "handling" \in Measuring
            BY DEF Measuring
        <3>3. /\ place[r] \in Admitted /\ "handling" \in Admitted
              /\ place[r] \in Counted /\ "handling" \in Counted
              /\ place[r] \notin Measuring
            BY <3>1, <3>2, PlacesCount
        <3>4. At(Admitted)' = At(Admitted) /\ At(Counted)' = At(Counted)
            BY <1>0, <3>1, <3>3, AtMoves
        <3>5. Cardinality(At(Measuring)') = Cardinality(At(Measuring)) + 1
            BY <1>0, <3>1, <3>2, <3>3, AtMoves
        <3> QED BY <3>4, <3>5
    <2> QED BY <1>5, <2>1 DEF Enter, Move, Running, shedder
<1>6. ASSUME NEW r \in Requests, Leave(r) PROVE CountersFollow'
    <2>1. /\ Cardinality(At(Admitted)') = Cardinality(At(Admitted)) - 1
          /\ Cardinality(At(Counted)') = Cardinality(At(Counted)) - 1
          /\ Cardinality(At(Measuring)') = Cardinality(At(Measuring)) - 1
        <3>1. place[r] = "leaving" /\ place' = [place EXCEPT ![r] = "over"]
            BY <1>6 DEF Leave, Move
        <3>2. place[r] \in Measuring
            BY <3>1 DEF Measuring
        <3>3. ASSUME NEW S \in {Admitted, Counted, Measuring}
              PROVE  place[r] \in S /\ "over" \notin S
            BY <3>2, PlacesCount
        <3>4. ASSUME NEW S \in {Admitted, Counted, Measuring}
              PROVE  Cardinality(At(S)') = Cardinality(At(S)) - 1
            BY <1>0, <3>1, <3>3, AtMoves
        <3> QED BY <3>4
    <2> QED BY <1>6, <2>1, AtIsFinite DEF Leave, Move, Running
<1>7. CASE Restart
    <2>1. Idle' /\ inFlight' = 0 /\ active' = 0 /\ max' = max
        BY <1>0, <1>7 DEF Restart, EndedIsIdle, Idle, Running
    <2>2. At(Admitted)' = {} /\ At(Counted)' = {} /\ At(Measuring)' = {}
        BY <2>1 DEF Idle, At, Admitted, Counted, Measuring
    <2> QED BY <2>1, <2>2, FS_EmptySet
<1>8. CASE Deadline \/ Crash
    BY <1>8 DEF Deadline, Crash, shedder, Running
<1>9. CASE Signal \/ Shutdown \/ Drained
    BY <1>1, <1>9 DEF Signal, Shutdown, Drained, requestVars, measures, Running
<1>10. ASSUME NEW r \in Requests, GetSlow(r) PROVE CountersFollow'
    BY <1>1, <1>10 DEF GetSlow, Running
<1>11. ASSUME NEW w \in Savers, Saving(w) PROVE CountersFollow'
    BY <1>1, <1>11 DEF Saving, Save, Written, Rename, requestVars, measures, Running
<1>12. CASE WriteLog \/ UNCHANGED vars
    BY <1>1, <1>12 DEF WriteLog, vars, requestVars, measures, Running
<1> QED
    BY <1>2, <1>3, <1>4, <1>5, <1>6, <1>7, <1>8, <1>9, <1>10, <1>11, <1>12
       DEF Next, Serve, Stopping

(***************************************************************************)
(* For every limit and every number of concurrent requests, Allow with its *)
(* correction and Done never let more than max requests through, and the   *)
(* counter and the gauge return to the number of requests under way.       *)
(***************************************************************************)
THEOREM ShedderIsExact == Spec => []NeverOverloaded
<1>1. StoreInv /\ RequestInv /\ CountersFollow => NeverOverloaded
    <2>1. {"refusing", "admitted"} \cup Measuring = Counted
          /\ {"admitted"} \cup Measuring = Admitted
        BY DEF Counted, Admitted
    <2>2. StoreInv /\ RequestInv => TypeOK
        BY DEF StoreInv, StoreTypes, RequestInv, RequestTypes, Places, TypeOK
    <2> QED BY <2>1, <2>2 DEF NeverOverloaded, CountersFollow
<1> QED
    BY <1>1, InitStore, NextStore, InitRequest, NextRequest, InitCounters, NextCounters,
       PTL DEF Spec
-----------------------------------------------------------------------------
\* Layer 4, the metrics: what the labelled counter, the status counters, the SLO
\* monitor and the log say of the requests that were measured.
Measured == {r \in At({"leaving", "over"}) : status[r] # 0}
Bad == {r \in Measured : status[r] = 5}

MeasureTypes ==
    /\ byProvider \in [Objects -> Int] /\ byStatus \in [Groups -> Int]
    /\ slo \in [good : Int, bad : Int]
    /\ logger \in [queued : Int, written : Int, dropped : Int]

MeasuresFollow ==
    /\ MeasureTypes
    /\ label = 0 => \A o \in Objects : byProvider[o] = 0
    /\ Running =>
         /\ label = 0 => Cardinality(Measured) = 0
         /\ label # 0 => byProvider[label] = Cardinality(Measured)
         /\ slo = [good |-> Cardinality(Measured) - Cardinality(Bad), bad |-> Cardinality(Bad)]
         /\ byStatus[2] + byStatus[3] + byStatus[4] + byStatus[5] = 2 * Cardinality(Measured)
         /\ logger.queued + logger.written + logger.dropped = Cardinality(Measured)

\* Those that were measured are finitely many.
LEMMA MeasuredIsFinite ==
    /\ IsFiniteSet(Measured) /\ Cardinality(Measured) \in Nat
    /\ IsFiniteSet(Bad) /\ Cardinality(Bad) \in Nat
<1>1. Measured \in SUBSET Requests /\ Bad \in SUBSET Requests
    BY DEF Measured, Bad, At
<1> QED BY <1>1, GatewayAssumption, FS_Subset, FS_CardinalityType

\* A new process has measured nobody.
LEMMA InitMeasures == Init => MeasuresFollow
<1> SUFFICES ASSUME Init PROVE MeasuresFollow
    OBVIOUS
<1>1. Measured = {} /\ Bad = {}
    BY DEF Init, Measured, Bad, At
<1>2. MeasureTypes
    BY DEF Init, MeasureTypes
<1> QED BY <1>1, <1>2, FS_EmptySet DEF Init, MeasuresFollow, Groups

\* Record measures one request, in every place.
LEMMA RecordMeasures ==
    ASSUME RequestInv, MeasuresFollow, NEW r \in Requests, Record(r)
    PROVE  MeasuresFollow'
<1>0. /\ place \in [Requests -> Places] /\ status[r] \in Groups /\ counter[r] = label
      /\ label # 0 /\ label \in Objects /\ Running /\ place[r] = "counted"
    BY RequestsAreCounted
       DEF Record, RequestInv, RequestTypes, OneCounter, AnswersAreKnown, Move, Objects
<1>1. Measured' = Measured \cup {r} /\ r \notin Measured
    BY <1>0 DEF Record, Move, Measured, At, Groups
<1>2. Cardinality(Measured') = Cardinality(Measured) + 1
    BY <1>1, MeasuredIsFinite, FS_AddElement
<1>3. Cardinality(Bad') = IF status[r] = 5 THEN Cardinality(Bad) + 1 ELSE Cardinality(Bad)
    <2>1. CASE status[r] = 5
        <3>1. Bad' = Bad \cup {r} /\ r \notin Bad
            BY <1>1, <2>1 DEF Record, Bad
        <3> QED BY <2>1, <3>1, MeasuredIsFinite, FS_AddElement
    <2>2. CASE status[r] # 5
        <3>1. Bad' = Bad
            BY <1>1, <2>2 DEF Record, Bad
        <3> QED BY <2>2, <3>1
    <2> QED BY <2>1, <2>2
<1>4. MeasureTypes /\ Cardinality(Measured) \in Nat /\ Cardinality(Bad) \in Nat
    BY MeasuredIsFinite DEF MeasuresFollow
<1>5. /\ label' = label /\ Running'
      /\ byProvider' = [byProvider EXCEPT ![label] = @ + 1]
      /\ byStatus' = [byStatus EXCEPT ![status[r]] = @ + 2]
    BY <1>0 DEF Record, Running
<1>6. byProvider' \in [Objects -> Int] /\ byStatus' \in [Groups -> Int]
    BY <1>0, <1>4, <1>5 DEF MeasureTypes
<1>7. byProvider'[label] = Cardinality(Measured')
    BY <1>0, <1>2, <1>4, <1>5 DEF MeasureTypes, MeasuresFollow
<1>8. byStatus'[2] + byStatus'[3] + byStatus'[4] + byStatus'[5] = 2 * Cardinality(Measured')
    BY <1>0, <1>2, <1>4, <1>5 DEF MeasureTypes, MeasuresFollow, Groups
<1>9. /\ slo' \in [good : Int, bad : Int]
      /\ slo' = [good |-> Cardinality(Measured') - Cardinality(Bad'), bad |-> Cardinality(Bad')]
    BY <1>0, <1>2, <1>3, <1>4 DEF Record, MeasureTypes, MeasuresFollow
<1>10. /\ logger' \in [queued : Int, written : Int, dropped : Int]
       /\ logger'.queued + logger'.written + logger'.dropped = Cardinality(Measured')
    BY <1>0, <1>2, <1>4, GatewayAssumption DEF Record, Log, MeasureTypes, MeasuresFollow
<1> QED
    BY <1>0, <1>5, <1>6, <1>7, <1>8, <1>9, <1>10 DEF MeasuresFollow, MeasureTypes

\* No other step changes what was measured, or it leaves the metrics behind.
LEMMA NextMeasures == RequestInv /\ MeasuresFollow /\ [Next]_vars => MeasuresFollow'
<1> SUFFICES ASSUME RequestInv, MeasuresFollow, [Next]_vars PROVE MeasuresFollow'
    OBVIOUS
<1>0. place \in [Requests -> Places] /\ status \in [Requests -> {0} \cup Groups]
    BY DEF RequestInv, RequestTypes
<1>1. ASSUME Measured' = Measured, Bad' = Bad, Running' => Running,
             UNCHANGED <<label, byProvider, byStatus, slo, logger>>
      PROVE  MeasuresFollow'
    BY <1>1 DEF MeasuresFollow, MeasureTypes
<1>2. ASSUME NEW r \in Requests,
             Arrive(r) \/ Allow(r) \/ Refuse(r) \/ Enter(r) \/ GetFast(r) \/ Leave(r)
      PROVE  MeasuresFollow'
    <2>1. Measured' = Measured
        BY <1>0, <1>2 DEF Arrive, Allow, Refuse, Enter, GetFast, Leave, Move, Measured, At,
                          RequestInv, AnswersAreKnown
    <2>2. status' = status /\ process' = process
          /\ UNCHANGED <<label, byProvider, byStatus, slo, logger>>
        BY <1>2 DEF Arrive, Allow, Refuse, Enter, GetFast, Leave, measures
    <2> QED BY <1>1, <2>1, <2>2 DEF Bad, Running
<1>3. ASSUME NEW r \in Requests, Handle(r) PROVE MeasuresFollow'
    <2>1. /\ place[r] = "handling" /\ place' = [place EXCEPT ![r] = "answered"]
          /\ \A s \in Requests : s # r => status'[s] = status[s]
        BY <1>0, <1>3 DEF Handle, Move
    <2>2. Measured' = Measured
        BY <1>0, <2>1 DEF Measured, At
    <2>3. Bad' = Bad
        BY <1>0, <2>1, <2>2 DEF Bad, Measured, At
    <2> QED BY <1>1, <1>3, <2>2, <2>3 DEF Handle, measures, Running
<1>4. ASSUME NEW r \in Requests, GetSlow(r) PROVE MeasuresFollow'
    <2>1. Measured' = Measured /\ Bad' = Bad /\ Running /\ process' = process
        BY <1>4 DEF GetSlow, Measured, Bad, At
    <2>2. label # 0 => label' = label
        BY <1>4 DEF GetSlow
    <2>3. label = 0 => label' \in Objects /\ label' # 0
        <3>1. label = 0 => \E o \in Objects : \A s \in Requests : counter[s] # o
            BY RequestsAreCounted DEF RequestInv, RequestTypes, OneCounter, Objects
        <3>2. label = 0 => label' \in Objects
            BY <1>4, <3>1 DEF GetSlow
        <3> QED BY <3>2 DEF Objects
    <2> QED
        BY <1>4, <2>1, <2>2, <2>3 DEF GetSlow, MeasuresFollow, MeasureTypes, Running
<1>5. ASSUME NEW r \in Requests, Record(r) PROVE MeasuresFollow'
    BY <1>5, RecordMeasures
<1>6. CASE WriteLog
    <2>1. /\ logger' \in [queued : Int, written : Int, dropped : Int]
          /\ logger'.queued + logger'.written + logger'.dropped
               = logger.queued + logger.written + logger.dropped
        <3>1. logger \in [queued : Int, written : Int, dropped : Int]
            BY DEF MeasuresFollow, MeasureTypes
        <3>2. logger' = [logger EXCEPT !.queued = @ - 1, !.written = @ + 1]
            BY <1>6 DEF WriteLog
        <3>3. logger' = [queued |-> logger.queued - 1, written |-> logger.written + 1,
                         dropped |-> logger.dropped]
            BY <3>1, <3>2
        <3> QED BY <3>1, <3>3
    <2>2. Measured' = Measured /\ Bad' = Bad /\ process' = process
        BY <1>6 DEF WriteLog, requestVars, Measured, Bad, At
    <2> QED BY <1>6, <2>1, <2>2 DEF WriteLog, MeasuresFollow, MeasureTypes, Running
<1>7. CASE Deadline \/ Crash
    BY <1>7 DEF Deadline, Crash, measures, MeasuresFollow, MeasureTypes, Running
<1>8. CASE Restart
    <2>1. \A r \in Requests : place[r] \in {"new", "over", "cut"}
        BY <1>8 DEF Restart, RequestInv, EndedIsIdle, Running, Idle
    <2>2. Measured' = {} /\ Bad' = {}
        BY <1>8, <2>1 DEF Restart, Measured, Bad, At
    <2>3. MeasureTypes'
        BY <1>8 DEF Restart, MeasureTypes
    <2> QED BY <1>8, <2>2, <2>3, FS_EmptySet DEF Restart, MeasuresFollow, Groups
<1>9. CASE Signal \/ Shutdown \/ Drained
    BY <1>1, <1>9
       DEF Signal, Shutdown, Drained, requestVars, measures, Running, Measured, Bad, At
<1>10. ASSUME NEW w \in Savers, Saving(w) PROVE MeasuresFollow'
    BY <1>1, <1>10
       DEF Saving, Save, Written, Rename, requestVars, measures, Running, Measured, Bad, At
<1>11. CASE UNCHANGED vars
    BY <1>1, <1>11 DEF vars, requestVars, measures, Running, Measured, Bad, At
<1> QED
    BY <1>2, <1>3, <1>4, <1>5, <1>6, <1>7, <1>8, <1>9, <1>10, <1>11
       DEF Next, Serve, Stopping

\* Every state of the process, with all four layers.
THEOREM InvariantHolds ==
    Spec => [](StoreInv /\ RequestInv /\ CountersFollow /\ MeasuresFollow)
<1> QED
    BY InitStore, NextStore, InitRequest, NextRequest, InitCounters, NextCounters,
       InitMeasures, NextMeasures, PTL DEF Spec

(***************************************************************************)
(* For any number of concurrent requests, panics, crashes and races for    *)
(* the labelled counter, each admitted request is measured exactly once in *)
(* the counter of the map, in the SLO monitor and in the log, and with the *)
(* status that was sent, unless its handler panicked in the answer.        *)
(***************************************************************************)
THEOREM MetricsAreExact == Spec => []MeasuredOnce
<1>1. RequestInv /\ MeasuresFollow => MeasuredOnce
    <2> SUFFICES ASSUME RequestInv, MeasuresFollow, Running
                 PROVE  /\ Cardinality(Measured) > 0 =>
                             label # 0 /\ byProvider[label] = Cardinality(Measured)
                        /\ slo = [good |-> Cardinality(Measured) - Cardinality(Bad),
                                  bad |-> Cardinality(Bad)]
                        /\ byStatus[2] + byStatus[3] + byStatus[4] + byStatus[5]
                             = 2 * Cardinality(Measured)
                        /\ logger.queued + logger.written + logger.dropped
                             = Cardinality(Measured)
                        /\ \A r \in Measured : sent[r] # status[r] =>
                             sent[r] = 2 /\ status[r] = 5
        BY DEF MeasuredOnce, Measured, Bad
    <2>1. \A r \in Measured : r \in Requests /\ status[r] # 0
        BY DEF Measured, At
    <2> QED BY <2>1, MeasuredIsFinite DEF RequestInv, AnswersAreKnown, MeasuresFollow
<1> QED BY <1>1, InvariantHolds, PTL

-----------------------------------------------------------------------------
(***************************************************************************)
(* ResponseCache, which a request asks before a provider, for any finite   *)
(* set of keys, any capacity and any times to live: the cache stays within *)
(* its capacity, and a write costs at most the one entry that was going to *)
(* expire first.                                                           *)
(***************************************************************************)
CacheInv == CacheTypeOK /\ WithinCapacity

\* The entries are some of the finitely many keys, so they can be counted.
LEMMA PresentIsFinite == IsFiniteSet(Present) /\ Cardinality(Present) \in Nat
<1>1. Present \subseteq CacheKeys
    BY DEF Present
<1> QED BY <1>1, CacheAssumption, FS_Subset, FS_CardinalityType

\* One more element makes a set at most one larger.
LEMMA AddOne ==
    ASSUME NEW S, NEW x, IsFiniteSet(S)
    PROVE  /\ Cardinality(S) \in Nat /\ Cardinality(S \cup {x}) \in Nat
           /\ Cardinality(S \cup {x}) <= Cardinality(S) + 1
<1>1. Cardinality(S) \in Nat
    BY FS_CardinalityType
<1>2. Cardinality(S \cup {x}) = IF x \in S THEN Cardinality(S)
                                          ELSE Cardinality(S) + 1
    BY FS_AddElement
<1> QED BY <1>1, <1>2

\* NewCache starts empty.
LEMMA InitCacheInv == CacheInit => CacheInv
<1> SUFFICES ASSUME CacheInit PROVE CacheInv
    OBVIOUS
<1>1. CacheTypeOK
    BY CacheAssumption DEF CacheInit, CacheTypeOK, Absent
<1>2. Present = {}
    BY DEF CacheInit, Present
<1> QED BY <1>1, <1>2, FS_EmptySet, CacheAssumption DEF CacheInv, WithinCapacity

\* What SetWithTTL does to the set of entries: the victim leaves before the
\* key comes in.
LEMMA SetPresent ==
    ASSUME CacheTypeOK, NEW k \in CacheKeys, NEW ttl \in TTLs, NEW victim \in CacheKeys,
           expires' = [expires EXCEPT ![victim] = Absent, ![k] = now + ttl]
    PROVE  Present' = (Present \ {victim}) \cup {k}
<1>1. now + ttl # Absent
    BY CacheAssumption DEF CacheTypeOK, Absent
<1>2. \A j \in CacheKeys : expires'[j] = IF j = k THEN now + ttl
                                    ELSE IF j = victim THEN Absent ELSE expires[j]
    BY DEF CacheTypeOK
<1> QED BY <1>1, <1>2 DEF Present

\* SetWithTTL keeps within the capacity, also when it overwrites.
LEMMA SetWithinCapacity ==
    ASSUME CacheInv, NEW k \in CacheKeys, NEW ttl \in TTLs, SetWithTTL(k, ttl)
    PROVE  WithinCapacity'
<1>1. Cardinality(Present) <= MaxSize /\ MaxSize \in Nat \ {0} /\ CacheTypeOK
    BY CacheAssumption DEF CacheInv, WithinCapacity
<1>2. Cardinality(Present) \in Nat
    BY PresentIsFinite
<1>3. CASE Cardinality(Present) >= MaxSize
    <2>1. PICK victim \in Oldest :
            expires' = [expires EXCEPT ![victim] = Absent, ![k] = now + ttl]
        BY <1>3 DEF SetWithTTL
    <2>2. victim \in Present /\ victim \in CacheKeys
        BY <2>1 DEF Oldest, Present
    <2>3. IsFiniteSet(Present \ {victim})
          /\ Cardinality(Present \ {victim}) = Cardinality(Present) - 1
        BY <2>2, PresentIsFinite, FS_RemoveElement
    <2>4. Present' = (Present \ {victim}) \cup {k}
        BY <1>1, <2>1, <2>2, SetPresent
    <2>5. Cardinality(Present') <= Cardinality(Present \ {victim}) + 1
          /\ Cardinality(Present') \in Nat
        BY <2>3, <2>4, AddOne
    <2> QED BY <1>1, <1>2, <2>3, <2>5 DEF WithinCapacity
<1>4. CASE ~(Cardinality(Present) >= MaxSize)
    <2>1. expires' = [expires EXCEPT ![k] = Absent, ![k] = now + ttl]
        BY <1>4 DEF SetWithTTL
    <2>2. Present' = (Present \ {k}) \cup {k}
        BY <1>1, <2>1, SetPresent
    <2>3. Present' = Present \cup {k}
        BY <2>2
    <2>4. Cardinality(Present') <= Cardinality(Present) + 1
          /\ Cardinality(Present') \in Nat
        BY <2>3, PresentIsFinite, AddOne
    <2> QED BY <1>1, <1>2, <1>4, <2>4 DEF WithinCapacity
<1> QED BY <1>3, <1>4

\* Each operation of the cache preserves the invariant.
LEMMA NextCacheInv == CacheInv /\ [CacheNext]_cacheVars => CacheInv'
<1> SUFFICES ASSUME CacheInv, [CacheNext]_cacheVars PROVE CacheInv'
    OBVIOUS
<1>0. CacheTypeOK /\ WithinCapacity
    BY DEF CacheInv
<1>1. ASSUME NEW k \in CacheKeys, NEW ttl \in TTLs, SetWithTTL(k, ttl) PROVE CacheInv'
    <2>1. CacheTypeOK'
        BY <1>0, <1>1, CacheAssumption DEF SetWithTTL, CacheTypeOK, Absent
    <2> QED BY <1>1, <2>1, SetWithinCapacity DEF CacheInv
<1>2. CASE EvictExpired
    <2>1. CacheTypeOK'
        BY <1>0, <1>2, CacheAssumption DEF EvictExpired, CacheTypeOK, Absent
    <2>2. Present' \subseteq Present
        BY <1>2 DEF EvictExpired, Present
    <2>3. Cardinality(Present') <= Cardinality(Present)
        BY <2>2, PresentIsFinite, FS_Subset
    <2>5. IsFiniteSet(Present')
        BY <2>2, PresentIsFinite, FS_Subset
    <2>6. Cardinality(Present') \in Nat
        BY <2>5, FS_CardinalityType
    <2>4. Cardinality(Present') <= MaxSize
        BY <1>0, <2>3, <2>6, PresentIsFinite, CacheAssumption DEF WithinCapacity
    <2> QED BY <2>1, <2>4 DEF CacheInv, WithinCapacity
<1>3. CASE Tick
    <2>1. CacheTypeOK' /\ Present' = Present
        BY <1>0, <1>3, CacheAssumption DEF Tick, CacheTypeOK, Present
    <2> QED BY <1>0, <2>1 DEF CacheInv, WithinCapacity
<1>4. CASE UNCHANGED cacheVars
    <2>1. CacheTypeOK' /\ Present' = Present
        BY <1>0, <1>4 DEF cacheVars, CacheTypeOK, Present
    <2> QED BY <1>0, <2>1 DEF CacheInv, WithinCapacity
<1> QED BY <1>1, <1>2, <1>3, <1>4 DEF CacheNext

\* Every reachable state is well typed and within the capacity.
THEOREM CacheInvariantHolds == CacheSpec => []CacheInv
<1> QED BY InitCacheInv, NextCacheInv, PTL DEF CacheSpec

(***************************************************************************)
(* Every entry has an expiry time of its own, never later than the last    *)
(* write plus its time to live.                                            *)
(***************************************************************************)
THEOREM CacheTypeCorrect == CacheSpec => []CacheTypeOK
<1>1. CacheInv => CacheTypeOK
    BY DEF CacheInv
<1> QED BY <1>1, CacheInvariantHolds, PTL

(***************************************************************************)
(* The cache never holds more than maxSize entries, for every capacity and *)
(* every mix of writes, overwrites, expiries and evictions.                *)
(***************************************************************************)
THEOREM StaysWithinCapacity == CacheSpec => []WithinCapacity
<1>1. CacheInv => WithinCapacity
    BY DEF CacheInv
<1> QED BY <1>1, CacheInvariantHolds, PTL
-----------------------------------------------------------------------------
Lost == {j \in CacheKeys : Hit(j) /\ expires'[j] = Absent}

\* A step that loses no servable entry does what is promised.
LEMMA NothingLost == Lost = {} =>
    /\ Cardinality(Lost) <= 1
    /\ Lost # {} => Cardinality(Present) = MaxSize
    /\ \A j \in Lost, i \in Present :
         expires'[i] = expires[i] => expires[j] <= expires[i]
BY FS_EmptySet

(***************************************************************************)
(* A write into a full cache gives up at most one servable entry, the one  *)
(* that was going to expire first; nothing else gives up any.              *)
(***************************************************************************)
THEOREM EvictionIsFair == CacheSpec => LosesOnlyTheNextToExpire
<1>1. ASSUME CacheInv, [CacheNext]_cacheVars
      PROVE  /\ Cardinality(Lost) <= 1
             /\ Lost # {} => Cardinality(Present) = MaxSize
             /\ \A j \in Lost, i \in Present :
                  expires'[i] = expires[i] => expires[j] <= expires[i]
    <2>0. CacheTypeOK /\ WithinCapacity
        BY <1>1 DEF CacheInv
    <2>1. ASSUME NEW k \in CacheKeys, NEW ttl \in TTLs, SetWithTTL(k, ttl),
                 Cardinality(Present) >= MaxSize
          PROVE  /\ Cardinality(Lost) <= 1
                 /\ Cardinality(Present) = MaxSize
                 /\ \A j \in Lost, i \in Present : expires[j] <= expires[i]
        <3>1. PICK victim \in Oldest :
                expires' = [expires EXCEPT ![victim] = Absent, ![k] = now + ttl]
            BY <2>1 DEF SetWithTTL
        <3>2. Lost \subseteq {victim}
            BY <2>0, <3>1, CacheAssumption
               DEF Lost, Hit, Present, CacheTypeOK, Absent, Oldest
        <3>3. Cardinality(Lost) <= Cardinality({victim})
            BY <3>2, FS_Singleton, FS_Subset
        <3>4. Cardinality({victim}) = 1
            BY FS_Singleton
        <3>5. Cardinality(Present) = MaxSize
            BY <2>0, <2>1, PresentIsFinite, CacheAssumption DEF WithinCapacity
        <3>6. \A j \in Lost, i \in Present : expires[j] <= expires[i]
            BY <3>1, <3>2 DEF Oldest
        <3> QED BY <3>3, <3>4, <3>5, <3>6
    <2>2. ASSUME NEW k \in CacheKeys, NEW ttl \in TTLs, SetWithTTL(k, ttl),
                 ~(Cardinality(Present) >= MaxSize)
          PROVE  Lost = {}
        <3>1. expires' = [expires EXCEPT ![k] = Absent, ![k] = now + ttl]
            BY <2>2 DEF SetWithTTL
        <3> QED
            BY <2>0, <3>1, CacheAssumption DEF Lost, Hit, Present, CacheTypeOK, Absent
    <2>3. CASE EvictExpired
        <3>1. Lost = {}
            BY <2>0, <2>3 DEF EvictExpired, Lost, Hit, Present, CacheTypeOK
        <3> QED BY <3>1, NothingLost
    <2>4. CASE Tick \/ UNCHANGED cacheVars
        <3>1. Lost = {}
            BY <2>4 DEF Tick, cacheVars, Lost, Hit, Present
        <3> QED BY <3>1, NothingLost
    <2> QED BY <1>1, <2>1, <2>2, <2>3, <2>4, NothingLost DEF CacheNext
<1>2. CacheInv /\ [CacheNext]_cacheVars =>
        [LET lost == {j \in CacheKeys : Hit(j) /\ expires'[j] = Absent} IN
           /\ Cardinality(lost) <= 1
           /\ lost # {} => Cardinality(Present) = MaxSize
           /\ \A j \in lost, i \in Present :
                expires'[i] = expires[i] => expires[j] <= expires[i]]_cacheVars
    BY <1>1 DEF Lost
<1> QED
    BY <1>2, CacheInvariantHolds, PTL DEF CacheSpec, LosesOnlyTheNextToExpire
=============================================================================
