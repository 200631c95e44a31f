----------------------------- MODULE RateLimits -----------------------------
(***************************************************************************)
(* The rate limits a chat request passes, in the order of the code: the    *)
(* bucket of its client (server/middleware.go), the buckets of its key and *)
(* model, checked and charged under one mutex (provider/                   *)
(* rate_limit_multi.go, called by server/ratelimit.go), the provider's     *)
(* limiter (provider/concurrency.go) and the breaker, which refuses only   *)
(* after the limiter has charged (Manager.Generate).  Each Allow is one    *)
(* action; requests run concurrently, and a client that was answered or    *)
(* refused may send the same request again.                                *)
(*                                                                         *)
(* A bucket is lazy: it holds what was left at its last use and how long   *)
(* ago that was, and is refilled when it is used again.  One request or    *)
(* token is Unit parts and a minute is Unit ticks, so that one tick adds   *)
(* the limit in parts and every amount is a whole number.  Times beyond    *)
(* MaxAge make no difference.  The third level of MultiRateLimiter is      *)
(* created without limits and never refuses.                               *)
(***************************************************************************)
EXTENDS Integers, Sequences, FiniteSets

CONSTANTS
    Requests, Clients, Keys, Models,
    Ask,          \* request -> [client, key, model, chars, messages, maxTokens]
    Unit,
    ClientRate, ClientBurst,    \* DM_GATEWAY_RATE_LIMIT, in parts per tick, in requests
    StaleAfter,   \* ticks after which cleanup drops a client's bucket
    StartLimits,  \* key, model or the provider -> <<rpm, tpm>>, 0 being no limit
    AdminLimits,  \* what the administrator may set
    MaxChanges    \* bound on the administrator's changes

Provider == "provider"
LimitNames == Keys \cup Models \cup {Provider}
Buckets == Clients \cup LimitNames
MaxAge == IF Unit > StaleAfter THEN Unit ELSE StaleAfter + 1

\* Every bucket that cleanup drops has had the time to fill up: burst is at
\* most 600 times the rate per second.  The code does not check this; with a
\* larger burst cleanup would give credit away.  Clients, keys and models are
\* kept in maps of their own, so their names are apart.
ASSUME LimitsAssumption ==
    /\ Unit \in Nat \ {0} /\ ClientRate \in Nat \ {0} /\ ClientBurst \in Nat
    /\ StaleAfter \in Nat /\ ClientBurst * Unit <= ClientRate * StaleAfter
    /\ StartLimits \in [LimitNames -> Nat \X Nat]
    /\ AdminLimits \subseteq Nat \X Nat
    /\ MaxChanges \in Nat
    /\ Ask \in [Requests -> [client : Clients, key : Keys, model : Models,
                             chars : Nat, messages : Nat, maxTokens : Nat]]
    /\ Clients \cap LimitNames = {} /\ Keys \cap Models = {}
    /\ Provider \notin Keys \cup Models

VARIABLES
    limit,      \* of keys, models and the provider
    bucket,     \* bucket -> what was left at its last use, in parts
    age,        \* bucket -> ticks since then
    place,      \* where each request is; away: not sent, or answered
    changes

limitVars == <<limit, bucket, age, place, changes>>

TokenEstimate(r) == Ask[r].chars \div 4 + Ask[r].messages + Ask[r].maxTokens
Cost(r) == <<Unit, TokenEstimate(r) * Unit>>

Capacity(b) ==
    [i \in {1, 2} |-> Unit * IF b \in Clients THEN <<ClientBurst, 0>>[i] ELSE limit[b][i]]
Rate(b) == IF b \in Clients THEN <<ClientRate, 0>> ELSE limit[b]
Least(x, y) == IF x < y THEN x ELSE y

LimitsInit ==
    /\ limit = StartLimits
    /\ bucket = [b \in Buckets |-> Capacity(b)]
    /\ age = [b \in Buckets |-> 0]
    /\ place = [r \in Requests |-> "away"]
    /\ changes = 0

\* Faulty variants: time counted in whole minutes, and a level charged as soon
\* as it is found sufficient.
RefilledByTheMinute(b) ==
    [i \in {1, 2} |-> Least(Capacity(b)[i],
                            bucket[b][i] + (age[b] \div Unit) * Unit * Rate(b)[i])]

\* refill.
Refilled(b) ==
    [i \in {1, 2} |-> Least(Capacity(b)[i], bucket[b][i] + age[b] * Rate(b)[i])]

Short(b, cost) == \E i \in {1, 2} : Capacity(b)[i] > 0 /\ Refilled(b)[i] < cost[i]
Charged(b, cost) ==
    [i \in {1, 2} |-> IF Capacity(b)[i] > 0 THEN Refilled(b)[i] - cost[i]
                                            ELSE Refilled(b)[i]]

AllowUpToTheFirstShort(levels, cost) ==
    LET charged == {levels[i] : i \in {j \in DOMAIN levels :
                      \A h \in 1..j : ~Short(levels[h], cost)}}
    IN  /\ bucket' = [b \in Buckets |->
                        IF b \in charged THEN Charged(b, cost) ELSE bucket[b]]
        /\ age' = [b \in Buckets |-> IF b \in charged THEN 0 ELSE age[b]]

\* Allow over the levels of one limiter: all are charged if none is short;
\* otherwise those up to the first short one are refilled, nothing else.
Allow(levels, cost) ==
    LET ok == \A i \in DOMAIN levels : ~Short(levels[i], cost)
        seen == {levels[i] : i \in {j \in DOMAIN levels :
                   \A h \in 1..(j - 1) : ~Short(levels[h], cost)}}
    IN  /\ bucket' = [b \in Buckets |-> IF b \notin seen THEN bucket[b]
                                        ELSE IF ok THEN Charged(b, cost)
                                        ELSE Refilled(b)]
        /\ age' = [b \in Buckets |-> IF b \in seen THEN 0 ELSE age[b]]

\* The gate that guards each place, its levels in the order they are checked,
\* and the place behind it.
Levels(r) == [arrived  |-> <<Ask[r].client>>,
              routed   |-> <<Ask[r].key, Ask[r].model>>,
              acquired |-> <<Provider>>]
Behind == [arrived |-> "routed", routed |-> "acquired", acquired |-> "limited"]
Gate(r) == {Levels(r)[place[r]][i] : i \in DOMAIN Levels(r)[place[r]]}

\* External: a client sends its request, whenever it likes.
Send(r) ==
    /\ place[r] = "away" /\ place' = [place EXCEPT ![r] = "arrived"]
    /\ UNCHANGED <<limit, bucket, age, changes>>

\* The requests that are not larger than any of their limits.
Fitting == {r \in Requests : /\ ClientBurst > 0
                             /\ \A b \in {Ask[r].key, Ask[r].model, Provider} :
                                  limit[b][2] > 0 => TokenEstimate(r) <= limit[b][2]}

Pass(r) ==
    /\ place[r] \in DOMAIN Behind
    /\ \A b \in Gate(r) : ~Short(b, Cost(r))
    /\ Allow(Levels(r)[place[r]], Cost(r))
    /\ place' = [place EXCEPT ![r] = Behind[@]]
    /\ UNCHANGED <<limit, changes>>

\* A refused request is answered 429 (or, by the provider's limiter, as an
\* upstream error would be).
Refuse(r) ==
    /\ place[r] \in DOMAIN Behind
    /\ \E b \in Gate(r) : Short(b, Cost(r))
    /\ Allow(Levels(r)[place[r]], Cost(r))
    /\ place' = [place EXCEPT ![r] = "away"]
    /\ UNCHANGED <<limit, changes>>

\* cb.Allow comes last: whether it admits the call or refuses it, what the
\* limits took is not given back.
AskBreaker(r) ==
    /\ place[r] = "limited" /\ place' = [place EXCEPT ![r] = "away"]
    /\ UNCHANGED <<limit, bucket, age, changes>>

\* SetKeyLimit, SetModelLimit and the Clear operations (limit 0/0): the bucket is
\* replaced by a full one.
SetLimit(b, l) ==
    /\ changes < MaxChanges /\ changes' = changes + 1
    /\ limit' = [limit EXCEPT ![b] = l]
    /\ bucket' = [bucket EXCEPT ![b] = <<l[1] * Unit, l[2] * Unit>>]
    /\ age' = [age EXCEPT ![b] = 0]
    /\ UNCHANGED <<place>>

\* cleanup deletes a bucket that has not been used for long; Allow makes a new,
\* full one when the client comes back.
Cleanup ==
    LET stale == {c \in Clients : age[c] > StaleAfter}
    IN  /\ stale # {}
        /\ bucket' = [b \in Buckets |-> IF b \in stale THEN Capacity(b) ELSE bucket[b]]
        /\ age' = [b \in Buckets |-> IF b \in stale THEN 0 ELSE age[b]]
        /\ UNCHANGED <<limit, place, changes>>

Tick ==
    /\ age' = [b \in Buckets |-> Least(MaxAge, age[b] + 1)]
    /\ UNCHANGED <<limit, bucket, place, changes>>

Serve(r) == Pass(r) \/ Refuse(r) \/ AskBreaker(r)

LimitsNext ==
    \/ \E r \in Requests : Send(r) \/ Serve(r)
    \/ \E b \in Keys \cup Models, l \in AdminLimits : SetLimit(b, l)
    \/ Cleanup \/ Tick

LimitsSpec == LimitsInit /\ [][LimitsNext]_limitVars

\* Handlers run and time passes.  Clients need not send, and no request has its
\* turn: a limiter refuses at once and keeps no queue.
FairLimitsSpec ==
    /\ LimitsSpec /\ WF_limitVars(Tick)
    /\ \A r \in Requests : WF_limitVars(Serve(r))
-----------------------------------------------------------------------------
(***************************************************************************)
(* The lazy buckets, with their last-fill times, their removal when a      *)
(* client is silent and their replacement by the administrator, are the    *)
(* eager ones of TokenBuckets: nobody gains or loses credit by the moment  *)
(* of a refill or of the cleanup, key and model are charged together or    *)
(* not at all, and no bucket is overdrawn.                                 *)
(***************************************************************************)
Eager == INSTANCE TokenBuckets
           WITH Buckets <- Buckets,
                Gates <- {{c} : c \in Clients} \cup {{Provider}}
                         \cup {{k, m} : k \in Keys, m \in Models},
                Costs <- {Cost(r) : r \in Requests},
                capacity <- [b \in Buckets |-> Capacity(b)],
                rate <- [b \in Buckets |-> Rate(b)],
                level <- [b \in Buckets |-> Refilled(b)]
ImplementsTokenBuckets == Eager!Spec

(***************************************************************************)
(* As long as clients keep sending requests that are not larger than any   *)
(* of their limits, some of them get through.  No rhythm of retries can    *)
(* keep all of them out: not by refills that a refused attempt drops, and  *)
(* not by the credit that is lost at one gate when the next one refuses,   *)
(* and that others lack there.  In particular a client that tries again    *)
(* gets through once the others rest.  That each of them does is not       *)
(* promised: steady small requests can keep a larger one out.              *)
(***************************************************************************)
FittingRequestsPass ==
    /\ <>[](\A r \in Requests : place[r] # "away" => r \in Fitting)
    /\ []<>(\E r \in Requests : place[r] = "arrived")
    => []<>(\E r \in Requests : place[r] = "limited")
=============================================================================
