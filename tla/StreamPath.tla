----------------------------- MODULE StreamPath -----------------------------
(***************************************************************************)
(* provider/openai.go: GenerateStream with its attempts, backoff and retry *)
(* budget (provider/errors.go), the goroutine readSSEStream that feeds a   *)
(* buffered channel, and the two consumers of the channel: handleStream    *)
(* (server/api.go, server-sent events for a client) and generateViaStream  *)
(* (one response for a client that does not stream).                       *)
(*                                                                         *)
(* A chunk is the attempt it came from, its number, the tool call its      *)
(* fragment belongs to (0: none) and the usage it reports (0: none).  A    *)
(* line without choices, a comment included, changes nothing and is not a  *)
(* step; a usage report in such a line is therefore lost.                  *)
(***************************************************************************)
EXTENDS Naturals, Sequences, SequencesExt, FiniteSets

CONSTANTS
    Requests,
    Streaming,     \* the requests answered by handleStream
    MaxRetries,    \* max_retries of the provider
    Budget,        \* retry_budget, retries per minute; 0 means unlimited
    Buffer,        \* capacity of the channel (64)
    Statuses,      \* the HTTP statuses of the upstream other than 200
    MaxChunks, MaxCalls    \* bounds: chunks of each request, tool calls

ASSUME StreamAssumption ==
    /\ Streaming \subseteq Requests /\ IsFiniteSet(Requests)
    /\ MaxRetries \in Nat /\ Budget \in Nat /\ Buffer \in Nat \ {0}
    /\ Statuses \subseteq 201..599
    /\ MaxChunks \in [Requests -> Nat] /\ MaxCalls \in Nat

VARIABLES
    at,         \* connecting, waiting (backoff), open, ended
    attempt, outcome,    \* the current attempt; how the last one ended
    budget,     \* what is left of the provider's retry budget
    gone,       \* the client has disconnected: its context is canceled
    sent,       \* history: the chunks read from the upstream
    reader,     \* readSSEStream: off, reading, sending, closed
    held,       \* what it sends next: at most one chunk
    chan,       \* the channel
    out,        \* what the consumer has passed on
    calls,      \* the merged tool calls: each the numbers of its fragments
    usage, charged,
    end         \* how the consumer ended: an error kind, or one of the below

reading == <<sent, reader, held, chan>>
answer == <<out, calls, usage, charged>>
connecting == <<attempt, outcome, budget>>
streamVars == <<at, connecting, gone, reading, answer, end>>

\* The error chunk; the others are numbered from 1.
Failure == [from |-> 0, n |-> 0, tool |-> 0, usage |-> 0]

\* ErrorKind.Retryable and ClassifyErrorWithMessage; words is what the message
\* contains.  GenerateStream closes the body before parseError reads it, so the
\* message is empty and the 4xx statuses are never told apart by it.
Retryable(kind) == kind \in {"ServerError", "Network", "Timeout", "RateLimit"}

ClassifyErrorWithMessage(status, words) ==
    IF status \in 400..499 /\ "context" \in words THEN "ContextWindow"
    ELSE IF status \in 400..499 /\ "policy" \in words THEN "ContentPolicy"
    ELSE IF status \in 400..499 /\ "model" \in words THEN "ModelNotFound"
    ELSE
    CASE status = 401  -> "Auth"
      [] status = 403  -> "Permission"
      [] status = 429  -> "RateLimit"
      [] status = 404  -> "ModelNotFound"
      [] status = 413  -> "ContextWindow"
      [] status >= 500 -> "ServerError"
      [] status \in 400..499 /\ status \notin {401, 403, 404, 413, 429} -> "BadRequest"
      [] status < 400  -> "Unknown"

\* ClassifyError of an error of client.Do; other: one that is neither a timeout nor
\* on the list of isNetworkError.
ClassifyError(error) == CASE error = "timeout" -> "Timeout"
                          [] error = "refused" -> "Network"
                          [] OTHER             -> "Unknown"

\* What client.Do gives back: a response or an error.
Untried == [status |-> 0, error |-> "none"]
Ok == [status |-> 200, error |-> "none"]
Errors == {"timeout", "refused", "canceled", "other"}
Failures == [status : Statuses, error : {"none"}] \cup [status : {0}, error : Errors]
KindOf(o) == IF o.error = "none" THEN ClassifyErrorWithMessage(o.status, {})
                                 ELSE ClassifyError(o.error)

StreamInit ==
    /\ at = [r \in Requests |-> "connecting"]
    /\ attempt = [r \in Requests |-> 0] /\ outcome = [r \in Requests |-> Untried]
    /\ budget = Budget
    /\ gone = [r \in Requests |-> FALSE]
    /\ sent = [r \in Requests |-> <<>>] /\ reader = [r \in Requests |-> "off"]
    /\ held = [r \in Requests |-> <<>>] /\ chan = [r \in Requests |-> <<>>]
    /\ out = [r \in Requests |-> <<>>] /\ calls = [r \in Requests |-> <<>>]
    /\ usage = [r \in Requests |-> 0] /\ charged = [r \in Requests |-> <<>>]
    /\ end = [r \in Requests |-> "running"]

Connected(r) ==
    /\ at[r] = "connecting" /\ ~gone[r]
    /\ at' = [at EXCEPT ![r] = "open"] /\ reader' = [reader EXCEPT ![r] = "reading"]
    /\ outcome' = [outcome EXCEPT ![r] = Ok]
    /\ UNCHANGED <<attempt, budget, gone, sent, held, chan, answer, end>>

\* TryConsume.
MayWait == Budget = 0 \/ budget > 0
Consume == budget' = IF Budget = 0 THEN budget ELSE budget - 1

GiveUp(r, kind) ==
    /\ at' = [at EXCEPT ![r] = "ended"] /\ end' = [end EXCEPT ![r] = kind]

\* An attempt fails, whatever the status.  The last one fails the request; before
\* that the next one follows after a backoff, or at once if the budget is used up.
AttemptFails(r, o) ==
    /\ at[r] = "connecting" /\ (o.error = "canceled" => gone[r])
    /\ IF attempt[r] = MaxRetries
         THEN /\ outcome' = [outcome EXCEPT ![r] = o]
              /\ GiveUp(r, KindOf(o)) /\ UNCHANGED <<attempt, budget>>
         ELSE /\ attempt' = [attempt EXCEPT ![r] = @ + 1] /\ UNCHANGED <<outcome, end>>
              /\ IF MayWait THEN Consume /\ at' = [at EXCEPT ![r] = "waiting"]
                            ELSE UNCHANGED <<budget, at>>
    /\ UNCHANGED <<gone, reading, answer>>

BackoffEnds(r) ==
    /\ at[r] = "waiting" /\ at' = [at EXCEPT ![r] = "connecting"]
    /\ UNCHANGED <<connecting, gone, reading, answer, end>>

BackoffCanceled(r) ==
    /\ at[r] = "waiting" /\ gone[r]
    /\ outcome' = [outcome EXCEPT ![r] = [status |-> 0, error |-> "canceled"]]
    /\ GiveUp(r, ClassifyError("canceled"))
    /\ UNCHANGED <<attempt, budget, gone, reading, answer>>

\* RetryBudget.refill.
Refill ==
    /\ budget < Budget /\ budget' = budget + 1
    /\ UNCHANGED <<at, attempt, outcome, gone, reading, answer, end>>

Disconnect(r) ==
    /\ at[r] # "ended" /\ ~gone[r] /\ gone' = [gone EXCEPT ![r] = TRUE]
    /\ UNCHANGED <<at, connecting, reading, answer, end>>

-----------------------------------------------------------------------------
\* Tool calls start in the order of their index (external: the upstream);
\* handleStream passes a delta on as it is, tool calls included; usage comes in
\* a chunk without one.
CallsSeen(r) == {sent[r][i].tool : i \in DOMAIN sent[r]}
ReadChunk(r) ==
    /\ reader[r] = "reading" /\ Len(sent[r]) < MaxChunks[r]
    /\ \E tool \in IF r \in Streaming THEN {0} ELSE 0..MaxCalls, report \in BOOLEAN :
         LET n == Len(sent[r]) + 1
             chunk == [from |-> attempt[r], n |-> n, tool |-> tool,
                       usage |-> IF report THEN n ELSE 0]
         IN  /\ report => tool = 0
             /\ \A t \in 1..(tool - 1) : t \in CallsSeen(r)
             /\ sent' = [sent EXCEPT ![r] = Append(@, chunk)]
             /\ held' = [held EXCEPT ![r] = <<chunk>>]
    /\ reader' = [reader EXCEPT ![r] = "sending"]
    /\ UNCHANGED <<at, connecting, gone, chan, answer, end>>

\* A line that does not decode.
ReadGarbage(r) ==
    /\ reader[r] = "reading"
    /\ held' = [held EXCEPT ![r] = <<Failure>>] /\ reader' = [reader EXCEPT ![r] = "sending"]
    /\ UNCHANGED <<at, connecting, gone, sent, chan, answer, end>>

\* Faulty variants: a new connection when the stream breaks off, a consumer that
\* stops when its client is gone, one that charges a broken stream, and one that
\* takes an empty channel for a closed one.
ReadEndReconnects(r) ==
    /\ reader[r] = "reading"
    /\ IF attempt[r] = MaxRetries
         THEN reader' = [reader EXCEPT ![r] = "closed"] /\ UNCHANGED <<at, attempt>>
         ELSE /\ attempt' = [attempt EXCEPT ![r] = @ + 1]
              /\ UNCHANGED <<at, reader>>
    /\ UNCHANGED <<outcome, budget, gone, sent, held, chan, answer, end>>

\* [DONE], or the end of the body, which is a broken connection, the timeout of
\* the client or its canceled context as well: close(ch).
ReadEnd(r) ==
    /\ reader[r] = "reading" /\ reader' = [reader EXCEPT ![r] = "closed"]
    /\ UNCHANGED <<at, connecting, gone, sent, held, chan, answer, end>>

Send(r) ==
    /\ reader[r] = "sending" /\ Len(chan[r]) < Buffer
    /\ chan' = [chan EXCEPT ![r] = @ \o held[r]]
    /\ held' = [held EXCEPT ![r] = <<>>]
    /\ reader' = [reader EXCEPT ![r] = IF held[r] = <<Failure>> THEN "closed" ELSE "reading"]
    /\ UNCHANGED <<at, connecting, gone, sent, answer, end>>

\* mergeToolCalls, for one fragment; the code's indices start at 0.
MergeToolCalls(acc, chunk) ==
    IF chunk.tool = 0 THEN acc
    ELSE IF chunk.tool <= Len(acc) THEN [acc EXCEPT ![chunk.tool] = Append(@, chunk.n)]
    ELSE Append(acc, <<chunk.n>>)

ReceiveWhileConnected(r) ==
    /\ at[r] = "open" /\ chan[r] # <<>> /\ Head(chan[r]) # Failure
    /\ IF gone[r] /\ r \in Streaming
         THEN GiveUp(r, "broken") /\ UNCHANGED <<chan, answer>>
         ELSE /\ chan' = [chan EXCEPT ![r] = Tail(@)]
              /\ out' = [out EXCEPT ![r] = Append(@, Head(chan[r]))]
              /\ calls' = IF r \in Streaming THEN calls
                          ELSE [calls EXCEPT ![r] = MergeToolCalls(@, Head(chan[r]))]
              /\ usage' = [usage EXCEPT ![r] = IF Head(chan[r]).usage > 0 THEN Head(chan[r]).usage ELSE @]
              /\ UNCHANGED <<at, charged, end>>
    /\ UNCHANGED <<connecting, gone, sent, reader, held>>

\* The consumer takes a chunk: handleStream sends it on (and ignores that the
\* client may be gone), generateViaStream adds it to its response.
Receive(r) ==
    /\ at[r] = "open" /\ chan[r] # <<>> /\ Head(chan[r]) # Failure
    /\ LET chunk == Head(chan[r])
       IN  /\ out' = [out EXCEPT ![r] = Append(@, chunk)]
           /\ usage' = [usage EXCEPT ![r] = IF chunk.usage > 0 THEN chunk.usage ELSE @]
           /\ calls' = IF r \in Streaming THEN calls
                       ELSE [calls EXCEPT ![r] = MergeToolCalls(@, chunk)]
    /\ chan' = [chan EXCEPT ![r] = Tail(@)]
    /\ UNCHANGED <<at, connecting, gone, sent, reader, held, charged, end>>

ReceiveFailureCharged(r) ==
    /\ at[r] = "open" /\ chan[r] # <<>> /\ Head(chan[r]) = Failure
    /\ chan' = [chan EXCEPT ![r] = Tail(@)]
    /\ charged' = [charged EXCEPT ![r] = Append(@, usage[r])]
    /\ GiveUp(r, "broken")
    /\ UNCHANGED <<connecting, gone, sent, reader, held, out, calls, usage>>

\* An error event to the client, or an error to the caller; nothing is recorded.
ReceiveFailure(r) ==
    /\ at[r] = "open" /\ chan[r] # <<>> /\ Head(chan[r]) = Failure
    /\ chan' = [chan EXCEPT ![r] = Tail(@)]
    /\ GiveUp(r, "broken")
    /\ UNCHANGED <<connecting, gone, sent, reader, held, answer>>

\* The channel is closed and empty: the usage is recorded if there is one (by
\* handleStream, or by the caller of generateViaStream).
Finish(r) ==
    /\ at[r] = "open" /\ chan[r] = <<>> /\ reader[r] = "closed"
    /\ charged' = IF usage[r] = 0 THEN charged
                  ELSE [charged EXCEPT ![r] = Append(@, usage[r])]
    /\ GiveUp(r, "done")
    /\ UNCHANGED <<connecting, gone, reading, out, calls, usage>>

Connect(r) == \/ Connected(r) \/ \E o \in Failures : AttemptFails(r, o)
              \/ BackoffEnds(r) \/ BackoffCanceled(r)
Reading(r) == ReadChunk(r) \/ ReadGarbage(r) \/ ReadEnd(r) \/ Send(r)
Consuming(r) == Receive(r) \/ ReceiveFailure(r) \/ Finish(r)

StreamNext ==
    \/ \E r \in Requests : Connect(r) \/ Reading(r) \/ Consuming(r) \/ Disconnect(r)
    \/ Refill

StreamSpec == StreamInit /\ [][StreamNext]_streamVars

\* The HTTP client has a timeout, which ends an attempt as well as a body; the
\* goroutines run; a write to a client returns (WriteTimeout).
FairStreamSpec ==
    StreamSpec /\ \A r \in Requests : /\ WF_streamVars(Connect(r)) /\ WF_streamVars(Reading(r))
                                /\ WF_streamVars(Consuming(r))
-----------------------------------------------------------------------------
StreamTypeOK ==
    /\ at \in [Requests -> {"connecting", "waiting", "open", "ended"}]
    /\ attempt \in [Requests -> 0..MaxRetries] /\ budget \in 0..Budget
    /\ outcome \in [Requests -> {Untried, Ok} \cup Failures]
    /\ gone \in [Requests -> BOOLEAN]
    /\ reader \in [Requests -> {"off", "reading", "sending", "closed"}]
    /\ \A r \in Requests : Len(chan[r]) <= Buffer /\ Len(sent[r]) <= MaxChunks[r]
    /\ \A r \in Requests : usage[r] \in 0..MaxChunks[r]

(***************************************************************************)
(* What the client gets, what waits in the channel and what the reader     *)
(* holds is, in this order, what the upstream sent in one attempt, nothing *)
(* twice, missing or out of order: a retry happens only before the first   *)
(* chunk, and a full channel loses nothing.  (After an error the rest of   *)
(* the body is not read.)  And generateViaStream has put together each     *)
(* tool call from all its fragments in order, however the upstream         *)
(* interleaves the calls.                                                  *)
(***************************************************************************)
DeliveredOnceInOrder ==
    /\ StreamTypeOK
    /\ \A r \in Requests :
         /\ out[r] \o chan[r] \o held[r] \in {sent[r], Append(sent[r], Failure)}
         /\ \A i \in DOMAIN sent[r] : sent[r][i].n = i /\ sent[r][i].from = sent[r][1].from
    /\ \A r \in Requests \ Streaming, t \in 1..MaxCalls :
         LET fragments == {i \in DOMAIN out[r] : out[r][i].tool = t}
         IN  IF fragments = {} THEN t > Len(calls[r])
             ELSE /\ t <= Len(calls[r]) /\ ToSet(calls[r][t]) = fragments
                  /\ \A i, j \in DOMAIN calls[r][t] : i < j => calls[r][t][i] < calls[r][t][j]

(***************************************************************************)
(* A stream that ended without an error passed everything on and is        *)
(* charged what its last report said, once; an answer that ended in an     *)
(* error is not charged.  A request fails before the first chunk only      *)
(* after the last attempt, or because its client left; and its error is    *)
(* Retryable, which sends an aggregated request to another provider,       *)
(* exactly if it was a timeout, a network error, a 429 or a 5xx.           *)
(***************************************************************************)
EndsAsItWent ==
    \A r \in Requests :
      LET reports == {i \in DOMAIN out[r] : out[r][i].usage > 0}
      IN  CASE end[r] = "running" -> charged[r] = <<>>
            [] end[r] = "broken"  -> charged[r] = <<>>
            [] end[r] = "done"    ->
                 /\ out[r] = sent[r]
                 /\ reports = {} => charged[r] = <<>>
                 /\ reports # {} => \E i \in reports : /\ \A j \in reports : j <= i
                                                       /\ charged[r] = <<out[r][i].usage>>
            [] OTHER -> /\ out[r] = <<>> /\ charged[r] = <<>>
                        /\ attempt[r] = MaxRetries \/ gone[r]
                        /\ Retryable(end[r]) <=>
                             \/ outcome[r].error \in {"timeout", "refused"}
                             \/ outcome[r].status \in {429} \cup 500..599

(***************************************************************************)
(* The consumer never leaves before the reader: a goroutine that reads, or *)
(* that is blocked on the full channel, has somebody who takes what it     *)
(* sends, and when a request has ended nothing is left in the channel or   *)
(* in the reader's hand.                                                   *)
(***************************************************************************)
ReaderHasAConsumer ==
    \A r \in Requests :
        /\ reader[r] \in {"reading", "sending"} => at[r] = "open"
        /\ at[r] = "ended" => chan[r] = <<>> /\ held[r] = <<>>

(***************************************************************************)
(* Every request ends and its reader too: neither waits for ever on the    *)
(* full or the empty channel, whenever the client leaves.                  *)
(***************************************************************************)
StreamsEnd ==
    \A r \in Requests : <>[](at[r] = "ended" /\ reader[r] \in {"off", "closed"})
=============================================================================
