--------------------------- MODULE EmbeddingGateway ---------------------------
(***************************************************************************)
(* The embedding orchestrator of internal/aigateway/orchestration.go:      *)
(* concurrent Embed calls share one budget ledger and one pool of slots.   *)
(* A call cuts its items into batches and hands them to its workers over   *)
(* an unbuffered channel; the first error of a worker stops the call.  The *)
(* generation orchestrator runs the same attempt loop, on a ledger and a   *)
(* pool of its own: a call with one batch.                                 *)
(*                                                                         *)
(* Input tokens stand for the three dimensions that are reserved by        *)
(* estimate and settled by actual use (input, output, cost); requests are  *)
(* the fourth.  Every batch has the same estimate.  A transient error with *)
(* items but no tokens reported is a plain provider error here: both end   *)
(* the batch.  So does a result that fails its validation.                 *)
(***************************************************************************)
EXTENDS Integers, FiniteSets

CONSTANTS
    Calls,         \* Embed calls
    Batches,       \* [Calls -> how many batches the call has]
    Concurrency,   \* MaxConcurrency
    MaxAttempts,   \* attempts of a batch
    MaxRequests,   \* budget: requests, 0 for no limit
    MaxTokens,     \* budget: tokens, 0 for no limit
    Estimate,      \* tokens reserved for an attempt
    MaxActual,     \* most tokens an answer uses
    Usages         \* bound: the numbers of tokens that answers use

ASSUME GatewayAssumption ==
    /\ IsFiniteSet(Calls)
    /\ Batches \in [Calls -> Nat \ {0}]
    /\ Concurrency \in Nat \ {0}
    /\ MaxAttempts \in Nat \ {0}
    /\ MaxRequests \in Nat /\ MaxTokens \in Nat
    /\ Estimate \in Nat /\ MaxActual \in Nat
    /\ Usages \subseteq 0..MaxActual

Workers(c) == {c} \X {i \in 1..Concurrency : i <= Batches[c]}
AllWorkers == UNION {Workers(c) : c \in Calls}

Places  == {"idle", "acquire", "reserve", "calling", "settle", "retry", "backoff", "done"}
Errors  == {"cancelled", "budget", "provider"}
Replies == {"ok", "transient", "provider", "cancelled"}

VARIABLES
    requests, tokens,   \* BudgetLedger.used
    slots,              \* tokens in the slots channel
    main,               \* [Calls -> the caller's goroutine]
    sent,               \* [Calls -> batches handed out]
    ended,              \* [Calls -> the caller's context has ended]
    firstErr,           \* [Calls -> the error recorded, or "none"]
    results,            \* [Calls -> batches with a result]
    outcome,            \* [Calls -> what Embed returned]
    at,                 \* [AllWorkers -> where in worker and embedBatch]
    batch, attempt,     \* [AllWorkers -> loop variables]
    reply, usage,       \* [AllWorkers -> what the backend answered]
    started, spent      \* history: attempts begun, tokens really used

ledger == <<requests, tokens, started, spent>>
calls  == <<main, sent, ended, outcome>>
work   == <<batch, attempt, reply, usage>>
vars   == <<ledger, calls, work, slots, firstErr, results, at>>

TypeOK ==
    /\ requests \in Nat /\ tokens \in Int /\ started \in Nat /\ spent \in Nat
    /\ slots \in 0..Concurrency
    /\ main \in [Calls -> {"sending", "draining", "returned"}]
    /\ sent \in [Calls -> Nat] /\ results \in [Calls -> SUBSET Nat]
    /\ \A c \in Calls : sent[c] \in 0..Batches[c] /\ results[c] \subseteq 1..Batches[c]
    /\ ended \in [Calls -> BOOLEAN]
    /\ firstErr \in [Calls -> Errors \cup {"none"}]
    /\ outcome \in [Calls -> Errors \cup {"none", "ok"}]
    /\ at \in [AllWorkers -> Places]
    /\ batch \in [AllWorkers -> Nat] /\ attempt \in [AllWorkers -> 0..MaxAttempts]
    /\ reply \in [AllWorkers -> Replies] /\ usage \in [AllWorkers -> 0..MaxActual]

Init ==
    /\ requests = 0 /\ tokens = 0 /\ started = 0 /\ spent = 0
    /\ slots = 0
    /\ main = [c \in Calls |-> "sending"] /\ sent = [c \in Calls |-> 0]
    /\ ended = [c \in Calls |-> FALSE]
    /\ firstErr = [c \in Calls |-> "none"] /\ results = [c \in Calls |-> {}]
    /\ outcome = [c \in Calls |-> "none"]
    /\ at = [w \in AllWorkers |-> "idle"]
    /\ batch = [w \in AllWorkers |-> 0] /\ attempt = [w \in AllWorkers |-> 0]
    /\ reply = [w \in AllWorkers |-> "ok"] /\ usage = [w \in AllWorkers |-> 0]

----------------------------------------------------------------------------
CallOf(w) == w[1]

\* The context of the call's workers: stop() follows the first recorded error.
Stopped(c) == ended[c] \/ firstErr[c] # "none"

\* exceedsInt: what is already used is held against the limit too.
Exceeds(current, additional, limit) ==
    limit > 0 /\ (current < 0 \/ current > limit \/ additional > limit - current)

\* Mutant of OverBudget: the estimate is not asked for.
OverBudgetSoFar == Exceeds(requests, 1, MaxRequests) \/ Exceeds(tokens, 0, MaxTokens)

OverBudget == Exceeds(requests, 1, MaxRequests) \/ Exceeds(tokens, Estimate, MaxTokens)

Move(w, from, to) == at[w] = from /\ at' = [at EXCEPT ![w] = to]

\* embedBatch returns: its batch and its attempt go out of scope.
Drop(w) == batch' = [batch EXCEPT ![w] = 0] /\ attempt' = [attempt EXCEPT ![w] = 0]

\* Mutant of RecordError: without the sync.Once the last error wins.
RecordLastError(w, e) ==
    /\ firstErr' = [firstErr EXCEPT ![CallOf(w)] = e]
    /\ at' = [at EXCEPT ![w] = "done"]
    /\ Drop(w)

\* embedBatch returned an error: the first one is kept, and the worker leaves.
RecordError(w, e) ==
    /\ firstErr' = [firstErr EXCEPT ![CallOf(w)] = IF @ = "none" THEN e ELSE @]
    /\ at' = [at EXCEPT ![w] = "done"]
    /\ Drop(w)

Keep == UNCHANGED <<firstErr, batch, attempt>>

----------------------------------------------------------------------------
(* runEmbeddingBatches.                                                    *)

\* The channel is unbuffered: sender and worker meet.  Both may still choose
\* the channel when the context has ended, as select does.
Hand(w) ==
    LET c == CallOf(w) IN
    /\ main[c] = "sending" /\ sent[c] < Batches[c]
    /\ Move(w, "idle", "acquire")
    /\ sent' = [sent EXCEPT ![c] = @ + 1]
    /\ batch' = [batch EXCEPT ![w] = sent[c] + 1]
    /\ attempt' = [attempt EXCEPT ![w] = 1]
    /\ UNCHANGED <<ledger, slots, main, ended, firstErr, results, outcome, reply, usage>>

CloseJobs(c) ==
    /\ main[c] = "sending"
    /\ sent[c] = Batches[c] \/ Stopped(c)
    /\ main' = [main EXCEPT ![c] = "draining"]
    /\ UNCHANGED <<ledger, work, slots, sent, ended, firstErr, results, outcome, at>>

Leave(w) ==
    /\ Stopped(CallOf(w)) \/ main[CallOf(w)] = "draining"
    /\ Move(w, "idle", "done")
    /\ UNCHANGED <<ledger, calls, work, slots, firstErr, results>>

Finish(c, result) ==
    /\ main[c] = "draining"
    /\ \A w \in Workers(c) : at[w] = "done"
    /\ main' = [main EXCEPT ![c] = "returned"]
    /\ outcome' = [outcome EXCEPT ![c] = result]
    /\ UNCHANGED <<ledger, work, slots, sent, ended, firstErr, results, at>>

\* Mutant of Return: the context is not looked at once the workers have left.
ReturnUnchecked(c) == Finish(c, IF firstErr[c] # "none" THEN firstErr[c] ELSE "ok")

Return(c) ==
    Finish(c, IF firstErr[c] # "none" THEN firstErr[c]
              ELSE IF ended[c] THEN "cancelled" ELSE "ok")

\* The caller gives up, or the deadline of the request passes.
EndContext(c) ==
    /\ ~ended[c] /\ main[c] # "returned"
    /\ ended' = [ended EXCEPT ![c] = TRUE]
    /\ UNCHANGED <<ledger, work, slots, main, sent, firstErr, results, outcome, at>>

----------------------------------------------------------------------------
(* embedBatch: one attempt after the other.                                *)

Acquire(w) ==
    /\ \/ /\ slots < Concurrency
          /\ Move(w, "acquire", "reserve")
          /\ slots' = slots + 1
          /\ Keep
       \/ /\ Stopped(CallOf(w))
          /\ at[w] = "acquire"
          /\ RecordError(w, "cancelled")
          /\ UNCHANGED slots
    /\ UNCHANGED <<ledger, calls, reply, usage, results>>

Refuse(w, e) ==
    /\ RecordError(w, e)
    /\ slots' = slots - 1
    /\ UNCHANGED <<ledger, calls, reply, usage, results>>

Admit(w, n) ==
    /\ Move(w, "reserve", "calling")
    /\ requests' = requests + 1 /\ tokens' = tokens + n /\ started' = started + 1
    /\ UNCHANGED <<calls, work, slots, firstErr, results, spent>>

\* Mutant of Reserve: an attempt that is refused keeps its slot.
ReserveLeaks(w) ==
    /\ at[w] = "reserve"
    /\ \/ /\ Stopped(CallOf(w)) \/ OverBudget
          /\ RecordError(w, IF Stopped(CallOf(w)) THEN "cancelled" ELSE "budget")
          /\ UNCHANGED <<ledger, calls, reply, usage, slots, results>>
       \/ ~Stopped(CallOf(w)) /\ ~OverBudget /\ Admit(w, Estimate)

\* Mutant of Reserve: only the request is counted before the call.
ReserveRequestOnly(w) ==
    /\ at[w] = "reserve"
    /\ \/ Stopped(CallOf(w)) /\ Refuse(w, "cancelled")
       \/ ~Stopped(CallOf(w)) /\ OverBudget /\ Refuse(w, "budget")
       \/ ~Stopped(CallOf(w)) /\ ~OverBudget /\ Admit(w, 0)

\* With the slot in hand: the context first, then the ledger.
Reserve(w) ==
    /\ at[w] = "reserve"
    /\ \/ Stopped(CallOf(w)) /\ Refuse(w, "cancelled")
       \/ ~Stopped(CallOf(w)) /\ OverBudget /\ Refuse(w, "budget")
       \/ ~Stopped(CallOf(w)) /\ ~OverBudget /\ Admit(w, Estimate)

\* The backend answers.  The slot is given back before the reservation is
\* settled, and a context that has ended by then takes the place of the answer.
Reply(w) ==
    /\ Move(w, "calling", "settle")
    /\ slots' = slots - 1
    /\ \E kind \in Replies \ {"cancelled"}, n \in Usages :
          /\ reply' = [reply EXCEPT ![w] = IF Stopped(CallOf(w)) THEN "cancelled" ELSE kind]
          /\ usage' = [usage EXCEPT ![w] = n]
    /\ UNCHANGED <<ledger, calls, firstErr, results, batch, attempt>>

Repeatable(w) == reply[w] = "transient" /\ attempt[w] < MaxAttempts /\ usage[w] = 0

\* The reservation is replaced by what was used; a ledger over its limit then
\* turns any answer, a good one too, into a budget error.  The answer goes out
\* of scope.
Settle(w) ==
    LET total == tokens - Estimate + usage[w]
        c     == CallOf(w) IN
    /\ at[w] = "settle"
    /\ tokens' = total /\ spent' = spent + usage[w]
    /\ reply' = [reply EXCEPT ![w] = "ok"] /\ usage' = [usage EXCEPT ![w] = 0]
    /\ \/ /\ Exceeds(total, 0, MaxTokens)
          /\ RecordError(w, "budget") /\ UNCHANGED results
       \/ /\ ~Exceeds(total, 0, MaxTokens)
          /\ \/ /\ reply[w] = "ok"
                /\ results' = [results EXCEPT ![c] = @ \cup {batch[w]}]
                /\ Move(w, "settle", "idle") /\ Drop(w) /\ UNCHANGED firstErr
             \/ /\ Repeatable(w)
                /\ Move(w, "settle", "retry") /\ Keep /\ UNCHANGED results
             \/ /\ reply[w] # "ok" /\ ~Repeatable(w)
                /\ RecordError(w, IF reply[w] = "transient" THEN "provider" ELSE reply[w])
                /\ UNCHANGED results
    /\ UNCHANGED <<calls, slots, requests, started>>

\* The ledger is asked before the pause, without reserving anything.
CheckRetry(w) ==
    /\ at[w] = "retry"
    /\ \/ OverBudget /\ RecordError(w, "budget")
       \/ ~OverBudget /\ Move(w, "retry", "backoff") /\ Keep
    /\ UNCHANGED <<ledger, calls, reply, usage, slots, results>>

Backoff(w) ==
    /\ at[w] = "backoff"
    /\ \/ /\ Stopped(CallOf(w))
          /\ RecordError(w, "cancelled")
       \/ /\ ~Stopped(CallOf(w))
          /\ Move(w, "backoff", "acquire")
          /\ attempt' = [attempt EXCEPT ![w] = @ + 1]
          /\ UNCHANGED <<firstErr, batch>>
    /\ UNCHANGED <<ledger, calls, slots, results, reply, usage>>

WorkerStep(w) ==
    \/ Hand(w) \/ Leave(w) \/ Acquire(w) \/ Reserve(w) \/ Reply(w)
    \/ Settle(w) \/ CheckRetry(w) \/ Backoff(w)

Next ==
    \/ \E w \in AllWorkers : WorkerStep(w)
    \/ \E c \in Calls : CloseJobs(c) \/ Return(c) \/ EndContext(c)

Spec == Init /\ [][Next]_vars

\* Goroutines are scheduled and the backend answers; that a context ends is
\* never taken for granted.
FairSpec ==
    /\ Spec
    /\ \A w \in AllWorkers : WF_vars(WorkerStep(w))
    /\ \A c \in Calls : WF_vars(CloseJobs(c) \/ Return(c))
----------------------------------------------------------------------------
InFlight == {w \in AllWorkers : at[w] \in {"calling", "settle"}}
Holding  == {w \in AllWorkers : at[w] \in {"reserve", "calling"}}

\* The ledger is what was really used plus what is reserved for attempts not
\* settled yet, a request for every attempt begun, whichever way attempts end
\* and however their reserve and settle interleave; and every path of
\* embedBatch gives its slot back once.
BudgetConserved ==
    /\ tokens = spent + Estimate * Cardinality(InFlight)
    /\ requests = started
    /\ slots = Cardinality(Holding)

\* Retries included, no more attempts reach the provider than the budget
\* allows, and the tokens used pass their limit by no more than every worker's
\* last attempt can use above its estimate: workers, not slots, because a slot
\* is free again before its reservation is settled.
SpendingBounded ==
    /\ MaxRequests > 0 => started <= MaxRequests
    /\ MaxTokens > 0 /\ MaxActual >= Estimate =>
          spent <= MaxTokens + (MaxActual - Estimate) * Cardinality(AllWorkers)

\* Embed returns a result only when every batch has one: no batch is lost
\* between the sender and workers that leave when the context ends.
SuccessIsComplete == \A c \in Calls : outcome[c] = "ok" => results[c] = 1..Batches[c]

\* What Embed reports is the cause: the cancellation that the first error
\* brings on the other workers is never reported in its place.
ErrorIsCause == \A c \in Calls : outcome[c] = "cancelled" => ended[c]

\* Every call of Embed returns, budget errors, retries and full slots
\* included, also when nobody cancels it and no deadline passes.
EveryCallReturns == <>(\A c \in Calls : main[c] = "returned")
=============================================================================
