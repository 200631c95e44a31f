----------------------------- MODULE CostLedger -----------------------------
(***************************************************************************)
(* provider/cost.go with its two users in server/api.go: the daily quota   *)
(* check before a call and recordUsage after it.  Record updates four      *)
(* aggregates and appends one line to the usage log under one mutex; a     *)
(* restart rebuilds the aggregates from the log.                           *)
(*                                                                         *)
(* A usage record is numbered in the order of Record, and the log holds    *)
(* numbers: the line that json.Unmarshal accepts, or Garbage.  Requests,   *)
(* prompt and completion tokens and cost are added alike and are one       *)
(* amount, the tokens.  The snapshots of the dashboards only read.         *)
(***************************************************************************)
EXTENDS Naturals, Sequences, FiniteSets, FiniteSetsExt, SequencesExt

CONSTANTS
    Requests,    \* handler goroutines, each of which serves again and again
    Keys, Models, Amounts,
    Quota,       \* DM_GATEWAY_KEY_QUOTA_DAILY; 0 means none
    MaxRecords, MaxFaults, LastDay    \* bounds

Garbage == 0     \* a line that replayLog skips
Days == 1..LastDay

ASSUME LedgerAssumption ==
    /\ IsFiniteSet(Requests) /\ IsFiniteSet(Keys) /\ IsFiniteSet(Models)
    /\ IsFiniteSet(Amounts) /\ Amounts \subseteq Nat \ {0} /\ Amounts # {}
    /\ Quota \in Nat /\ MaxRecords \in Nat /\ MaxFaults \in Nat /\ LastDay \in Nat \ {0}

VARIABLES
    recorded,    \* history: every usage record that Record was called with
    log,         \* the lines of the usage log
    open,        \* the last line of the log has no newline
    up,          \* the process runs
    byKey, byModel, total, dailyTokens,    \* the aggregates in memory
    counted,     \* history: the records the aggregates have been given
    calling,     \* request -> the key it was admitted for, or Idle
    faults,      \* writes to the log that failed or broke off
    day

memory == <<byKey, byModel, total, dailyTokens, counted>>
vars == <<recorded, log, open, up, memory, calling, faults, day>>

Idle == "idle"
Logged == {log[i] : i \in DOMAIN log} \ {Garbage}
OfKey(k) == {id \in DOMAIN recorded : recorded[id].key = k}
OfModel(m) == {id \in DOMAIN recorded : recorded[id].model = m}
OfDay(k, d) == {id \in OfKey(k) : recorded[id].day = d}
Tokens(ids) == MapThenSumSet(LAMBDA id : recorded[id].tokens, ids)
Lost == DOMAIN recorded \ Logged

Init ==
    /\ recorded = <<>> /\ log = <<>> /\ open = FALSE /\ up = TRUE
    /\ byKey = [k \in Keys |-> 0] /\ byModel = [m \in Models |-> 0] /\ total = 0
    /\ dailyTokens = [kd \in Keys \X Days |-> 0] /\ counted = {}
    /\ calling = [r \in Requests |-> Idle]
    /\ faults = 0 /\ day = 1

\* Faulty variants: a quota check that looks at another day than Record writes
\* (UTC against local time), a replay that forgets the days, and a log that is
\* truncated when it is opened.
CheckQuotaOtherDay(r, k) ==
    /\ up /\ calling[r] = Idle
    /\ Quota > 0 => dailyTokens[<<k, (day % LastDay) + 1>>] < Quota
    /\ calling' = [calling EXCEPT ![r] = k]
    /\ UNCHANGED <<recorded, log, open, up, memory, faults, day>>

ReplayWithoutDays(lines) ==
    /\ byKey' = [k \in Keys |-> Tokens(Logged \cap OfKey(k))]
    /\ byModel' = [m \in Models |-> Tokens(Logged \cap OfModel(m))]
    /\ total' = Tokens(Logged)
    /\ dailyTokens' = [kd \in Keys \X Days |-> 0]
    /\ counted' = Logged

RestartTruncates ==
    /\ ~up /\ up' = TRUE
    /\ UNCHANGED memory
    /\ log' = <<>> /\ open' = FALSE
    /\ UNCHANGED <<recorded, calling, faults, day>>

\* The quota check of handleChatCompletions; a refused request (429) leaves no
\* trace.
CheckQuota(r, k) ==
    /\ up /\ calling[r] = Idle
    /\ Quota > 0 => dailyTokens[<<k, day>>] < Quota
    /\ calling' = [calling EXCEPT ![r] = k]
    /\ UNCHANGED <<recorded, log, open, up, memory, faults, day>>

\* The call fails, or its answer carries no usage.
NoUsage(r) ==
    /\ calling[r] # Idle
    /\ calling' = [calling EXCEPT ![r] = Idle]
    /\ UNCHANGED <<recorded, log, open, up, memory, faults, day>>

RecordLocked(id, e) ==
    /\ byKey' = [byKey EXCEPT ![e.key] = @ + e.tokens]
    /\ byModel' = [byModel EXCEPT ![e.model] = @ + e.tokens]
    /\ total' = total + e.tokens
    /\ dailyTokens' = [dailyTokens EXCEPT ![<<e.key, e.day>>] = @ + e.tokens]
    /\ counted' = counted \cup {id}

\* appendLog writes the line with its newline at once and ignores the result:
\* the write may put down all of it, a part, all but the newline, or nothing
\* (also when the file could not be opened).  After an incomplete line
\* O_APPEND continues that line, and the two make one that nobody can parse.
AppendLog(id, how) ==
    LET glued == [log EXCEPT ![Len(log)] = Garbage]
        added == CASE how = "part" -> Garbage [] OTHER -> id
    IN  /\ log' = CASE how = "lost" -> log
                    [] how # "lost" /\ open -> glued
                    [] OTHER -> Append(log, added)
        /\ open' = CASE how = "lost" -> open
                     [] how = "whole" -> FALSE
                     [] OTHER -> TRUE

\* recordUsage and Record: the day is the one on which the record is made, not
\* the one on which the quota was checked.
Record(r, m, n, how) ==
    LET id == Len(recorded) + 1
        e == [key |-> calling[r], model |-> m, tokens |-> n, day |-> day]
    IN  /\ up /\ calling[r] # Idle /\ id <= MaxRecords
        /\ recorded' = Append(recorded, e)
        /\ RecordLocked(id, e)
        /\ AppendLog(id, how)
        /\ faults' = IF how = "whole" THEN faults ELSE faults + 1
        /\ faults' <= MaxFaults
        /\ calling' = [calling EXCEPT ![r] = Idle]
        /\ UNCHANGED <<up, day>>

\* The process ends; a record cut short by it is Record with an incomplete
\* write, and then Crash.
Crash ==
    /\ up /\ up' = FALSE
    /\ byKey' = [k \in Keys |-> 0] /\ byModel' = [m \in Models |-> 0] /\ total' = 0
    /\ dailyTokens' = [kd \in Keys \X Days |-> 0] /\ counted' = {}
    /\ calling' = [r \in Requests |-> Idle]
    /\ UNCHANGED <<recorded, log, open, faults, day>>

\* NewCostTracker: replayLog reads the log line by line and applies recordLocked
\* to every line that parses; an aggregate gets those that are about it.
Replayed(lines, about) ==
    FoldLeft(LAMBDA sum, id : IF id \in about THEN sum + recorded[id].tokens ELSE sum, 0, lines)

Replay(lines) ==
    /\ byKey' = [k \in Keys |-> Replayed(lines, OfKey(k))]
    /\ byModel' = [m \in Models |-> Replayed(lines, OfModel(m))]
    /\ total' = Replayed(lines, DOMAIN recorded)
    /\ dailyTokens' = [kd \in Keys \X Days |-> Replayed(lines, OfDay(kd[1], kd[2]))]
    /\ counted' = Logged

Restart ==
    /\ ~up /\ up' = TRUE
    /\ Replay(log)
    /\ UNCHANGED <<recorded, log, open, calling, faults, day>>

NextDay ==
    /\ day < LastDay /\ day' = day + 1
    /\ UNCHANGED <<recorded, log, open, up, memory, calling, faults>>

Next ==
    \/ \E r \in Requests :
         \/ \E k \in Keys : CheckQuota(r, k)
         \/ NoUsage(r)
         \/ \E m \in Models, n \in Amounts, how \in {"whole", "part", "unended", "lost"} :
              Record(r, m, n, how)
    \/ Crash \/ Restart \/ NextDay

Spec == Init /\ [][Next]_vars
-----------------------------------------------------------------------------
TypeOK ==
    /\ recorded \in Seq([key : Keys, model : Models, tokens : Amounts, day : Days])
    /\ log \in Seq(0..Len(recorded))
    /\ open \in BOOLEAN /\ up \in BOOLEAN
    /\ byKey \in [Keys -> Nat] /\ byModel \in [Models -> Nat] /\ total \in Nat
    /\ dailyTokens \in [Keys \X Days -> Nat]
    /\ counted \subseteq DOMAIN recorded
    /\ calling \in [Requests -> Keys \cup {Idle}]
    /\ faults \in 0..MaxFaults /\ day \in Days

(***************************************************************************)
(* The four aggregates never contradict each other or the log, before or   *)
(* after a restart: each is the sum over one set of records, none of them  *)
(* counted twice, and this set contains every record the log can give      *)
(* back.                                                                   *)
(***************************************************************************)
AggregatesAgree ==
    /\ TypeOK
    /\ up => Logged \subseteq counted
    /\ total = Tokens(counted)
    /\ \A k \in Keys : byKey[k] = Tokens(counted \cap OfKey(k))
    /\ \A m \in Models : byModel[m] = Tokens(counted \cap OfModel(m))
    /\ \A k \in Keys, d \in Days : dailyTokens[<<k, d>>] = Tokens(counted \cap OfDay(k, d))

(***************************************************************************)
(* A write that fails or breaks off costs its own record and at most the   *)
(* one that is appended to the broken line; everything else is on disk, so *)
(* that is all a restart can lose, however often it happens.               *)
(***************************************************************************)
LossIsBounded ==
    /\ Cardinality(Lost) <= 2 * faults
    /\ \A i, j \in DOMAIN log : i < j /\ log[j] # Garbage => log[i] < log[j]

(***************************************************************************)
(* The quota is compared before a call and charged after it, and a call    *)
(* may be charged to the day after the one it was checked on.  All the     *)
(* same, what a key uses in a day stays below the quota plus one call for  *)
(* each handler that runs, plus the records that failed writes make a      *)
(* restart forget.                                                         *)
(***************************************************************************)
OvershootIsBounded ==
    Quota > 0 => \A k \in Keys, d \in Days :
      Tokens(OfDay(k, d)) <= Quota - 1 + Max(Amounts) * (Cardinality(Requests) + 2 * faults)
=============================================================================
