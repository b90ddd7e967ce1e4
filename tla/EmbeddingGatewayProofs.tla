------------------------ MODULE EmbeddingGatewayProofs ------------------------
(***************************************************************************)
(* Proofs about the embedding orchestrator, for every number of calls,     *)
(* batches, workers and attempts and every limit of the budget.            *)
(*                                                                         *)
(* Four facts are carried together: the ledger and the slots count the     *)
(* workers that are between two places of embedBatch; what is spent plus   *)
(* the most that attempts in flight may still use never passes a ceiling   *)
(* that only an admission below the limit can approach; every batch handed *)
(* out is answered, carried by a worker, or made moot by a recorded error; *)
(* and a cancellation always has a cause that came before it.              *)
(***************************************************************************)
EXTENDS EmbeddingGateway, FiniteSetTheorems, TLAPS

Working == Places \ {"idle", "done"}

\* TypeOK with what the bounds on attempts and batches rest on.
Typed ==
    /\ TypeOK
    /\ \A w \in AllWorkers : at[w] \in {"retry", "backoff"} => attempt[w] < MaxAttempts
    /\ \A w \in AllWorkers : at[w] \in Working => batch[w] \in 1..Batches[CallOf(w)]

Counted == IsFiniteSet(InFlight) /\ IsFiniteSet(Holding) /\ BudgetConserved

\* What may be spent when every attempt in flight uses all it can.
Ceiling ==
    /\ MaxRequests > 0 => started <= MaxRequests
    /\ MaxTokens > 0 /\ MaxActual >= Estimate =>
          spent + MaxActual * Cardinality(InFlight)
             <= MaxTokens + (MaxActual - Estimate) * Cardinality(AllWorkers)

\* A batch handed out is not lost.
BatchKept(c, b) ==
    \/ b \in results[c]
    \/ firstErr[c] # "none"
    \/ \E w \in Workers(c) : at[w] \in Working /\ batch[w] = b

Delivered ==
    /\ \A c \in Calls : \A b \in 1..sent[c] : BatchKept(c, b)
    /\ \A c \in Calls : main[c] # "sending" => sent[c] = Batches[c] \/ Stopped(c)
    /\ SuccessIsComplete

Caused ==
    /\ \A c \in Calls : firstErr[c] = "cancelled" => ended[c]
    /\ \A w \in AllWorkers : reply[w] = "cancelled" => Stopped(CallOf(w))
    /\ ErrorIsCause

\* The inductive invariant.
IInv == Typed /\ Counted /\ Ceiling /\ Delivered /\ Caused

----------------------------------------------------------------------------
LEMMA WorkerCall ==
  /\ \A w \in AllWorkers : CallOf(w) \in Calls /\ w \in Workers(CallOf(w))
  /\ \A c \in Calls : \A w \in Workers(c) : w \in AllWorkers /\ CallOf(w) = c
<1>1. \A c \in Calls : \A w \in Workers(c) : w \in AllWorkers /\ CallOf(w) = c
  BY DEF AllWorkers, Workers, CallOf
<1>2. \A w \in AllWorkers : \E c \in Calls : w \in Workers(c)
  BY DEF AllWorkers
<1> QED
  BY <1>1, <1>2

LEMMA WorkersFinite == IsFiniteSet(AllWorkers)
<1>1. IsFiniteSet(1..Concurrency)
  BY GatewayAssumption, FS_Interval
<1>2. IsFiniteSet(Calls \X (1..Concurrency))
  BY <1>1, GatewayAssumption, FS_Product
<1>3. AllWorkers \subseteq Calls \X (1..Concurrency)
  BY DEF AllWorkers, Workers
<1> QED
  BY <1>2, <1>3, FS_Subset

----------------------------------------------------------------------------
(* Counting: what a worker that moves adds to the sets and what it takes.  *)

Flying(p) == IF p \in {"calling", "settle"} THEN 1 ELSE 0
Holds(p)  == IF p \in {"reserve", "calling"} THEN 1 ELSE 0

LEMMA Recount ==
  ASSUME NEW S, NEW T, NEW w, IsFiniteSet(S), T = S \cup {w} \/ T = S \ {w}
  PROVE  /\ IsFiniteSet(T) /\ Cardinality(T) \in Nat
         /\ Cardinality(T) = Cardinality(S) - (IF w \in S THEN 1 ELSE 0)
                                            + (IF w \in T THEN 1 ELSE 0)
<1>1. Cardinality(S) \in Nat
  BY FS_CardinalityType
<1>2. CASE T = S \cup {w}
  <2>1. /\ IsFiniteSet(T)
        /\ Cardinality(T) = IF w \in S THEN Cardinality(S) ELSE Cardinality(S) + 1
    BY <1>2, FS_AddElement
  <2>2. w \in T
    BY <1>2
  <2> QED
    BY <1>1, <2>1, <2>2
<1>3. CASE T = S \ {w}
  <2>1. /\ IsFiniteSet(T)
        /\ Cardinality(T) = IF w \in S THEN Cardinality(S) - 1 ELSE Cardinality(S)
    BY <1>3, FS_RemoveElement
  <2>2. w \notin T /\ Cardinality(T) \in Nat
    BY <1>3, <2>1, FS_CardinalityType
  <2> QED
    BY <1>1, <2>1, <2>2
<1> QED
  BY <1>2, <1>3

LEMMA MoveCounts ==
  ASSUME IInv, NEW w \in AllWorkers, NEW p \in Places, at' = [at EXCEPT ![w] = p]
  PROVE  /\ IsFiniteSet(InFlight') /\ IsFiniteSet(Holding')
         /\ Cardinality(InFlight) \in Nat /\ Cardinality(InFlight') \in Nat
         /\ Cardinality(Holding) \in Nat /\ Cardinality(Holding') \in Nat
         /\ Cardinality(InFlight') = Cardinality(InFlight) - Flying(at[w]) + Flying(p)
         /\ Cardinality(Holding') = Cardinality(Holding) - Holds(at[w]) + Holds(p)
<1>1. at \in [AllWorkers -> Places] /\ at'[w] = p /\ \A v \in AllWorkers : v # w => at'[v] = at[v]
  BY DEF IInv, Typed, TypeOK
<1>2. InFlight' = InFlight \cup {w} \/ InFlight' = InFlight \ {w}
  BY <1>1 DEF InFlight
<1>3. Holding' = Holding \cup {w} \/ Holding' = Holding \ {w}
  BY <1>1 DEF Holding
<1>4. /\ w \in InFlight <=> at[w] \in {"calling", "settle"}
      /\ w \in InFlight' <=> p \in {"calling", "settle"}
      /\ w \in Holding <=> at[w] \in {"reserve", "calling"}
      /\ w \in Holding' <=> p \in {"reserve", "calling"}
  BY <1>1 DEF InFlight, Holding
<1>5. IsFiniteSet(InFlight) /\ IsFiniteSet(Holding)
  BY DEF IInv, Counted
<1>6. Cardinality(InFlight) \in Nat /\ Cardinality(Holding) \in Nat
  BY <1>5, FS_CardinalityType
<1>7. /\ IsFiniteSet(InFlight') /\ Cardinality(InFlight') \in Nat
      /\ Cardinality(InFlight') = Cardinality(InFlight) - Flying(at[w]) + Flying(p)
  BY <1>2, <1>4, <1>5, Recount DEF Flying
<1>8. /\ IsFiniteSet(Holding') /\ Cardinality(Holding') \in Nat
      /\ Cardinality(Holding') = Cardinality(Holding) - Holds(at[w]) + Holds(p)
  BY <1>3, <1>4, <1>5, Recount DEF Holds
<1> QED
  BY <1>5, <1>6, <1>7, <1>8

----------------------------------------------------------------------------
(* The ledger and the slots.                                               *)

\* A step that starts and settles no attempt.
LEMMA SameFlight ==
  ASSUME IInv, NEW w \in AllWorkers, NEW p \in Places, at' = [at EXCEPT ![w] = p],
         Flying(p) = Flying(at[w]), UNCHANGED ledger,
         slots' = slots - Holds(at[w]) + Holds(p)
  PROVE  Counted' /\ Ceiling' /\ slots' \in Nat
<1>1. /\ IsFiniteSet(InFlight') /\ IsFiniteSet(Holding')
      /\ Cardinality(InFlight') = Cardinality(InFlight)
      /\ Cardinality(Holding') = Cardinality(Holding) - Holds(at[w]) + Holds(p)
      /\ Cardinality(Holding') \in Nat
  <2>1. Flying(p) \in Int
    BY DEF Flying
  <2>2. /\ IsFiniteSet(InFlight') /\ IsFiniteSet(Holding') /\ Cardinality(InFlight) \in Nat
        /\ Cardinality(InFlight') = Cardinality(InFlight) - Flying(at[w]) + Flying(p)
        /\ Cardinality(Holding') = Cardinality(Holding) - Holds(at[w]) + Holds(p)
        /\ Cardinality(Holding') \in Nat
    BY MoveCounts
  <2> QED
    BY <2>1, <2>2
<1>2. /\ requests' = requests /\ tokens' = tokens /\ started' = started /\ spent' = spent
      /\ BudgetConserved /\ Ceiling
  BY DEF ledger, IInv, Counted
<1>3. slots' = Cardinality(Holding')
  BY <1>1, <1>2 DEF BudgetConserved
<1>4. Counted'
  BY <1>1, <1>2, <1>3 DEF BudgetConserved, Counted
<1>5. Ceiling'
  BY <1>1, <1>2 DEF Ceiling
<1> QED
  BY <1>1, <1>3, <1>4, <1>5

LEMMA NoMove ==
  ASSUME IInv, UNCHANGED <<ledger, slots, at>>
  PROVE  Counted' /\ Ceiling'
<1>1. InFlight' = InFlight /\ Holding' = Holding
  BY DEF InFlight, Holding
<1>2. Counted'
  BY <1>1 DEF IInv, Counted, BudgetConserved, ledger
<1>3. Ceiling'
  BY <1>1 DEF IInv, Ceiling, ledger
<1> QED
  BY <1>2, <1>3

LEMMA Distributes ==
  ASSUME NEW a \in Int, NEW n \in Int
  PROVE  a * (n + 1) = a * n + a /\ a * (n - 1) = a * n - a
  OBVIOUS

LEMMA MoreIsMore ==
  ASSUME NEW a \in Nat, NEW m \in Int, NEW n \in Int, m <= n
  PROVE  a * m <= a * n
<1>1. PICK d \in Nat : n = m + d
  <2>1. n - m \in Nat /\ n = m + (n - m)
    OBVIOUS
  <2> QED
    BY <2>1
<1>2. a * d \in Nat /\ a * (m + d) = a * m + a * d
  OBVIOUS
<1>3. a * m \in Int /\ a * n \in Int
  OBVIOUS
<1> QED
  BY <1>1, <1>2, <1>3

\* An attempt is admitted only while the ledger has room for its estimate.
LEMMA AdmitBudget ==
  ASSUME IInv, NEW w \in AllWorkers, at[w] = "reserve", ~OverBudget, Admit(w, Estimate)
  PROVE  Counted' /\ Ceiling'
<1> DEFINE n == Cardinality(InFlight)
           N == Cardinality(AllWorkers)
<1>1. /\ at' = [at EXCEPT ![w] = "calling"] /\ slots' = slots /\ spent' = spent
      /\ requests' = requests + 1 /\ tokens' = tokens + Estimate /\ started' = started + 1
  BY DEF Admit, Move
<1>2. /\ IsFiniteSet(InFlight') /\ IsFiniteSet(Holding')
      /\ n \in Nat /\ Cardinality(InFlight') = n + 1
      /\ Cardinality(Holding') = Cardinality(Holding)
  <2>1. "calling" \in Places
    BY DEF Places
  <2>2. /\ Flying(at[w]) = 0 /\ Flying("calling") = 1
        /\ Holds(at[w]) = 1 /\ Holds("calling") = 1
    BY DEF Flying, Holds
  <2>3. /\ IsFiniteSet(InFlight') /\ IsFiniteSet(Holding')
        /\ n \in Nat /\ Cardinality(Holding) \in Nat
        /\ Cardinality(InFlight') = n - Flying(at[w]) + Flying("calling")
        /\ Cardinality(Holding') = Cardinality(Holding) - Holds(at[w]) + Holds("calling")
    BY <1>1, <2>1, MoveCounts
  <2> HIDE DEF n
  <2> QED
    BY <2>2, <2>3
<1>3. N \in Nat /\ n + 1 <= N
  <2>1. IsFiniteSet(AllWorkers) /\ N \in Nat
    BY WorkersFinite, FS_CardinalityType
  <2>2. InFlight' \subseteq AllWorkers
    BY DEF InFlight
  <2>3. Cardinality(InFlight') <= N
    BY <2>1, <2>2, FS_Subset
  <2> QED
    BY <1>2, <2>1, <2>3
<1>4. /\ tokens = spent + Estimate * n /\ requests = started /\ slots = Cardinality(Holding)
      /\ tokens \in Int /\ spent \in Nat /\ started \in Nat
      /\ Estimate \in Nat /\ MaxActual \in Nat /\ MaxTokens \in Nat /\ MaxRequests \in Nat
  BY GatewayAssumption DEF IInv, Counted, BudgetConserved, Typed, TypeOK
<1>5. /\ Estimate * n \in Int /\ MaxActual * n \in Int
      /\ Estimate * (n + 1) = Estimate * n + Estimate
      /\ MaxActual * (n + 1) = MaxActual * n + MaxActual
  <2>1. n \in Int /\ Estimate \in Int /\ MaxActual \in Int
    BY <1>2, <1>4
  <2> HIDE DEF n
  <2> QED
    BY <2>1, Distributes
<1>6. Counted'
  <2>1. tokens' = spent' + Estimate * Cardinality(InFlight')
    BY <1>1, <1>2, <1>4, <1>5
  <2> QED
    BY <1>1, <1>2, <1>4, <2>1 DEF Counted, BudgetConserved
<1>7. MaxRequests > 0 => started' <= MaxRequests
  BY <1>1, <1>4 DEF OverBudget, Exceeds
<1>8. ASSUME MaxTokens > 0, MaxActual >= Estimate
      PROVE  spent' + MaxActual * Cardinality(InFlight') <= MaxTokens + (MaxActual - Estimate) * N
  <2>1. tokens + Estimate <= MaxTokens
    BY <1>4, <1>8 DEF OverBudget, Exceeds
  <2> DEFINE D == MaxActual - Estimate
  <2>2. D \in Nat
    BY <1>4, <1>8
  <2>3. D * (n + 1) <= D * N
    BY <1>2, <1>3, <2>2, MoreIsMore
  <2>4. D * (n + 1) = MaxActual * (n + 1) - Estimate * (n + 1) /\ D * N \in Int
    BY <1>2, <1>3, <1>4
  <2>5. MaxActual * (n + 1) \in Int /\ Estimate * (n + 1) \in Int
    BY <1>2, <1>4
  <2>6. spent + Estimate * (n + 1) <= MaxTokens
    BY <1>4, <1>5, <2>1
  <2> HIDE DEF D, n, N
  <2>7. spent + MaxActual * (n + 1) <= MaxTokens + D * N
    BY <1>4, <2>3, <2>4, <2>5, <2>6
  <2> QED
    BY <1>1, <1>2, <2>7 DEF D
<1> HIDE DEF n
<1> QED
  BY <1>6, <1>7, <1>8 DEF Ceiling

\* The reservation of an attempt is replaced by what it used.
LEMMA SettleBudget ==
  ASSUME IInv, NEW w \in AllWorkers, at[w] = "settle", NEW p \in {"idle", "retry", "done"},
         at' = [at EXCEPT ![w] = p], tokens' = tokens - Estimate + usage[w],
         spent' = spent + usage[w], UNCHANGED <<requests, started, slots>>
  PROVE  Counted' /\ Ceiling'
<1> DEFINE n == Cardinality(InFlight)
           N == Cardinality(AllWorkers)
<1>1. /\ IsFiniteSet(InFlight') /\ IsFiniteSet(Holding')
      /\ n \in Nat /\ Cardinality(InFlight') \in Nat /\ Cardinality(InFlight') = n - 1
      /\ Cardinality(Holding') = Cardinality(Holding)
  <2>1. p \in Places
    BY DEF Places
  <2>2. /\ Flying(at[w]) = 1 /\ Flying(p) = 0
        /\ Holds(at[w]) = 0 /\ Holds(p) = 0
    BY DEF Flying, Holds
  <2>3. /\ IsFiniteSet(InFlight') /\ IsFiniteSet(Holding')
        /\ n \in Nat /\ Cardinality(InFlight') \in Nat /\ Cardinality(Holding) \in Nat
        /\ Cardinality(InFlight') = n - Flying(at[w]) + Flying(p)
        /\ Cardinality(Holding') = Cardinality(Holding) - Holds(at[w]) + Holds(p)
    BY <2>1, MoveCounts
  <2> HIDE DEF n
  <2> QED
    BY <2>2, <2>3
<1>2. /\ tokens = spent + Estimate * n /\ requests = started /\ slots = Cardinality(Holding)
      /\ tokens \in Int /\ spent \in Nat /\ Estimate \in Nat /\ MaxActual \in Nat
      /\ usage[w] \in Nat /\ usage[w] <= MaxActual /\ Ceiling
  BY GatewayAssumption DEF IInv, Counted, BudgetConserved, Typed, TypeOK
<1>3. /\ Estimate * n \in Int /\ MaxActual * n \in Int
      /\ Estimate * (n - 1) = Estimate * n - Estimate
      /\ MaxActual * (n - 1) = MaxActual * n - MaxActual
  BY <1>1, <1>2, Distributes
<1>4. Counted'
  <2>1. tokens' = spent' + Estimate * Cardinality(InFlight')
    BY <1>1, <1>2, <1>3
  <2> QED
    BY <1>1, <1>2, <2>1 DEF Counted, BudgetConserved
<1>5. spent' + MaxActual * Cardinality(InFlight') <= spent + MaxActual * n
  BY <1>1, <1>2, <1>3
<1>6. ASSUME MaxTokens > 0, MaxActual >= Estimate
      PROVE  spent' + MaxActual * Cardinality(InFlight') <= MaxTokens + (MaxActual - Estimate) * N
  <2>1. spent + MaxActual * n <= MaxTokens + (MaxActual - Estimate) * N
    BY <1>2, <1>6 DEF Ceiling
  <2>2. /\ spent + MaxActual * n \in Int /\ spent' + MaxActual * Cardinality(InFlight') \in Int
        /\ MaxTokens + (MaxActual - Estimate) * N \in Int
    <3>1. N \in Nat
      BY WorkersFinite, FS_CardinalityType
    <3>2. (MaxActual - Estimate) * N \in Int /\ MaxTokens \in Nat
      BY <1>2, <3>1, GatewayAssumption
    <3>3. MaxActual * Cardinality(InFlight') \in Int
      BY <1>1, <1>2
    <3> HIDE DEF N
    <3> QED
      BY <1>2, <1>3, <3>2, <3>3
  <2> HIDE DEF n, N
  <2> QED
    BY <1>5, <2>1, <2>2
<1>7. MaxRequests > 0 => started' <= MaxRequests
  BY <1>2 DEF Ceiling
<1>8. Ceiling'
  BY <1>6, <1>7 DEF Ceiling
<1> QED
  BY <1>4, <1>8

----------------------------------------------------------------------------
(* Batches and causes.                                                     *)

\* The batch and the attempt of a worker that goes to p, and of the others.
Carried(w, p) ==
    /\ batch' \in [AllWorkers -> Nat] /\ attempt' \in [AllWorkers -> 0..MaxAttempts]
    /\ \A v \in AllWorkers : v # w => batch'[v] = batch[v] /\ attempt'[v] = attempt[v]
    /\ p \in Working => batch'[w] = batch[w]

LEMMA KeepCarries ==
  ASSUME IInv, UNCHANGED <<batch, attempt>>, NEW w \in AllWorkers, NEW p
  PROVE  Carried(w, p)
  BY DEF IInv, Typed, TypeOK, Carried

LEMMA DropCarries ==
  ASSUME IInv, NEW w \in AllWorkers, Drop(w), NEW p, p \notin Working
  PROVE  Carried(w, p)
<1>1. /\ batch \in [AllWorkers -> Nat] /\ attempt \in [AllWorkers -> 0..MaxAttempts]
      /\ 0 \in 0..MaxAttempts /\ 0 \in Nat
  BY GatewayAssumption DEF IInv, Typed, TypeOK
<1> QED
  BY <1>1 DEF Drop, Carried

\* The first error of a call stays, and a recorded cancellation has a cause.
ErrorsKept ==
    /\ firstErr' \in [Calls -> Errors \cup {"none"}]
    /\ \A c \in Calls : firstErr[c] # "none" => firstErr'[c] = firstErr[c]
    /\ \A c \in Calls : firstErr'[c] = "cancelled" => firstErr[c] = "cancelled" \/ ended[c]

LEMMA KeepErrors ==
  ASSUME IInv, UNCHANGED firstErr
  PROVE  ErrorsKept
  BY DEF IInv, Typed, TypeOK, ErrorsKept

LEMMA RecordKeeps ==
  ASSUME IInv, NEW w \in AllWorkers, NEW e \in Errors, RecordError(w, e),
         e = "cancelled" => Stopped(CallOf(w))
  PROVE  /\ ErrorsKept /\ firstErr'[CallOf(w)] # "none"
         /\ at' = [at EXCEPT ![w] = "done"] /\ Carried(w, "done")
<1> DEFINE c == CallOf(w)
<1>1. c \in Calls
  BY WorkerCall
<1>2. /\ firstErr \in [Calls -> Errors \cup {"none"}]
      /\ firstErr' = [firstErr EXCEPT ![c] = IF firstErr[c] = "none" THEN e ELSE firstErr[c]]
      /\ at' = [at EXCEPT ![w] = "done"]
  BY DEF IInv, Typed, TypeOK, RecordError
<1>3. e # "none"
  BY DEF Errors
<1>4. e = "cancelled" => ended[c] \/ firstErr[c] # "none"
  BY DEF Stopped
<1> HIDE DEF c
<1>5. firstErr' \in [Calls -> Errors \cup {"none"}] /\ firstErr'[c] # "none"
  BY <1>1, <1>2, <1>3
<1>6. \A k \in Calls : firstErr[k] # "none" => firstErr'[k] = firstErr[k]
  BY <1>1, <1>2
<1>7. \A k \in Calls : firstErr'[k] = "cancelled" => firstErr[k] = "cancelled" \/ ended[k]
  BY <1>1, <1>2, <1>4
<1>8. Carried(w, "done")
  BY DropCarries DEF RecordError, Working
<1> QED
  BY <1>2, <1>5, <1>6, <1>7, <1>8 DEF ErrorsKept, c

\* What happened to the batch that a worker carried before it moved.
LEMMA BatchesKept ==
  ASSUME IInv, NEW w \in AllWorkers, NEW p \in Places, at' = [at EXCEPT ![w] = p],
         ErrorsKept, Carried(w, p), sent' = sent,
         \A c \in Calls : results[c] \subseteq results'[c],
         \/ p \in Working \/ at[w] \notin Working
         \/ firstErr'[CallOf(w)] # "none" \/ batch[w] \in results'[CallOf(w)]
  PROVE  \A c \in Calls : \A b \in 1..sent'[c] : BatchKept(c, b)'
<1> SUFFICES ASSUME NEW c \in Calls, NEW b \in 1..sent[c] PROVE BatchKept(c, b)'
  OBVIOUS
<1>1. BatchKept(c, b)
  BY DEF IInv, Delivered
<1>2. at'[w] = p /\ \A v \in AllWorkers : v # w => at'[v] = at[v]
  BY DEF IInv, Typed, TypeOK
<1>3. CASE b \in results[c]
  BY <1>3 DEF BatchKept
<1>4. CASE firstErr[c] # "none"
  BY <1>4 DEF BatchKept, ErrorsKept
<1>5. ASSUME NEW v \in Workers(c), at[v] \in Working, batch[v] = b
      PROVE  BatchKept(c, b)'
  <2>1. v \in AllWorkers /\ CallOf(v) = c
    BY WorkerCall
  <2>2. CASE v # w
    <3>1. at'[v] \in Working /\ batch'[v] = b
      BY <1>2, <1>5, <2>1, <2>2 DEF Carried
    <3> QED
      BY <3>1 DEF BatchKept
  <2>3. CASE v = w /\ p \in Working
    <3>1. at'[v] \in Working /\ batch'[v] = b
      BY <1>2, <1>5, <2>3 DEF Carried
    <3> QED
      BY <3>1 DEF BatchKept
  <2>4. CASE v = w /\ firstErr'[CallOf(w)] # "none"
    BY <2>1, <2>4 DEF BatchKept
  <2>5. CASE v = w /\ batch[w] \in results'[CallOf(w)]
    BY <1>5, <2>1, <2>5 DEF BatchKept
  <2> QED
    BY <1>5, <2>2, <2>3, <2>4, <2>5
<1> QED
  BY <1>1, <1>3, <1>4, <1>5 DEF BatchKept

ResultsTyped ==
    /\ results \in [Calls -> SUBSET Nat]
    /\ \A c \in Calls : results[c] \subseteq 1..Batches[c]

\* A step of a worker that leaves the sender alone.
LEMMA WorkerDelivers ==
  ASSUME IInv, NEW w \in AllWorkers, NEW p \in Places, at' = [at EXCEPT ![w] = p],
         ErrorsKept, Carried(w, p), UNCHANGED calls, ResultsTyped',
         \A c \in Calls : results[c] \subseteq results'[c],
         \/ p \in Working \/ at[w] \notin Working
         \/ firstErr'[CallOf(w)] # "none" \/ batch[w] \in results'[CallOf(w)],
         \A v \in AllWorkers : reply'[v] = "cancelled" =>
             reply[v] = "cancelled" \/ Stopped(CallOf(v))
  PROVE  Delivered' /\ Caused'
<1>1. main' = main /\ sent' = sent /\ ended' = ended /\ outcome' = outcome
  BY DEF calls
<1>2. \A c \in Calls : Stopped(c) => Stopped(c)'
  BY <1>1 DEF Stopped, ErrorsKept
<1>3. \A c \in Calls : \A b \in 1..sent'[c] : BatchKept(c, b)'
  BY <1>1, BatchesKept
<1>4. \A c \in Calls : main'[c] # "sending" => sent'[c] = Batches[c] \/ Stopped(c)'
  BY <1>1, <1>2 DEF IInv, Delivered
<1>5. SuccessIsComplete'
  <2> SUFFICES ASSUME NEW c \in Calls, outcome[c] = "ok" PROVE results'[c] = 1..Batches[c]
    BY <1>1 DEF SuccessIsComplete
  <2> QED
    BY DEF IInv, Delivered, SuccessIsComplete, ResultsTyped
<1>6. Delivered'
  BY <1>3, <1>4, <1>5 DEF Delivered
<1>7. \A c \in Calls : firstErr'[c] = "cancelled" => ended'[c]
  BY <1>1 DEF IInv, Caused, ErrorsKept
<1>8. \A v \in AllWorkers : reply'[v] = "cancelled" => Stopped(CallOf(v))'
  <2> SUFFICES ASSUME NEW v \in AllWorkers, reply'[v] = "cancelled" PROVE Stopped(CallOf(v))'
    OBVIOUS
  <2>1. Stopped(CallOf(v)) /\ CallOf(v) \in Calls
    BY WorkerCall DEF IInv, Caused
  <2> QED
    BY <1>2, <2>1 DEF CallOf
<1>9. ErrorIsCause'
  BY <1>1 DEF IInv, Caused, ErrorIsCause
<1> QED
  BY <1>6, <1>7, <1>8, <1>9 DEF Caused

----------------------------------------------------------------------------
(* The steps of a worker.                                                  *)

LedgerTyped == requests \in Nat /\ tokens \in Int /\ started \in Nat /\ spent \in Nat
SlotsTyped  == slots \in 0..Concurrency
WorkTyped ==
    /\ reply \in [AllWorkers -> Replies]
    /\ usage \in [AllWorkers -> 0..MaxActual]

LEMMA TypedParts ==
  ASSUME IInv
  PROVE  /\ at \in [AllWorkers -> Places] /\ LedgerTyped /\ SlotsTyped /\ WorkTyped
         /\ ResultsTyped /\ slots \in Nat /\ Concurrency \in Nat
  BY GatewayAssumption DEF IInv, Typed, TypeOK, LedgerTyped, SlotsTyped, WorkTyped, ResultsTyped

LEMMA WorkerTyped ==
  ASSUME IInv, NEW w \in AllWorkers, NEW p \in Places, at' = [at EXCEPT ![w] = p],
         ErrorsKept, Carried(w, p), UNCHANGED calls, ResultsTyped',
         LedgerTyped', SlotsTyped', WorkTyped',
         p \in {"retry", "backoff"} => attempt'[w] < MaxAttempts,
         p \in Working => at[w] \in Working
  PROVE  Typed'
<1>1. /\ main' = main /\ sent' = sent /\ ended' = ended /\ outcome' = outcome
      /\ Typed
  BY DEF calls, IInv
<1>2. /\ at' \in [AllWorkers -> Places] /\ at'[w] = p
      /\ \A v \in AllWorkers : v # w => at'[v] = at[v]
  BY <1>1 DEF Typed, TypeOK
<1>3. TypeOK'
  BY <1>1, <1>2 DEF Typed, TypeOK, ErrorsKept, ResultsTyped, LedgerTyped, SlotsTyped, WorkTyped,
                    Carried
<1>4. \A v \in AllWorkers : at'[v] \in {"retry", "backoff"} => attempt'[v] < MaxAttempts
  BY <1>1, <1>2 DEF Typed, Carried
<1>5. \A v \in AllWorkers : at'[v] \in Working => batch'[v] \in 1..Batches[CallOf(v)]
  BY <1>1, <1>2 DEF Typed, Carried
<1> QED
  BY <1>3, <1>4, <1>5 DEF Typed, CallOf

\* A worker that moves without starting or settling an attempt.
LEMMA QuietStep ==
  ASSUME IInv, NEW w \in AllWorkers, NEW p \in Places, at' = [at EXCEPT ![w] = p],
         Flying(p) = Flying(at[w]), UNCHANGED <<ledger, calls, results>>,
         slots' = slots - Holds(at[w]) + Holds(p), slots' <= Concurrency,
         ErrorsKept, Carried(w, p), WorkTyped',
         p \in {"retry", "backoff"} => attempt'[w] < MaxAttempts,
         p \in Working => at[w] \in Working,
         \/ p \in Working \/ at[w] \notin Working \/ firstErr'[CallOf(w)] # "none",
         \A v \in AllWorkers : reply'[v] = "cancelled" =>
             reply[v] = "cancelled" \/ Stopped(CallOf(v))
  PROVE  IInv'
<1>1. UNCHANGED calls /\ UNCHANGED ledger /\ results' = results
  BY DEF calls
<1>2. Counted' /\ Ceiling' /\ slots' \in Nat
  BY <1>1, SameFlight
<1>3. LedgerTyped' /\ SlotsTyped' /\ ResultsTyped'
  BY <1>1, <1>2, TypedParts DEF LedgerTyped, SlotsTyped, ResultsTyped, ledger
<1>4. Typed'
  BY <1>1, <1>3, WorkerTyped
<1>5. Delivered' /\ Caused'
  BY <1>1, <1>3, WorkerDelivers
<1> QED
  BY <1>2, <1>4, <1>5 DEF IInv

\* A worker that leaves with an error, and gives back the slot it has.
LEMMA ErrorStep ==
  ASSUME IInv, NEW w \in AllWorkers, NEW e \in Errors, RecordError(w, e),
         e = "cancelled" => Stopped(CallOf(w)),
         at[w] \notin {"calling", "settle"}, slots' = slots - Holds(at[w]),
         UNCHANGED <<ledger, calls, reply, usage, results>>
  PROVE  IInv'
<1>1. /\ ErrorsKept /\ firstErr'[CallOf(w)] # "none" /\ at' = [at EXCEPT ![w] = "done"]
      /\ Carried(w, "done")
  BY RecordKeeps
<1>2. "done" \in Places /\ Flying("done") = Flying(at[w]) /\ Holds("done") = 0
      /\ "done" \notin Working
  BY DEF Places, Flying, Holds, Working
<1>3. slots' = slots - Holds(at[w]) + Holds("done") /\ slots' <= Concurrency
  BY <1>2, TypedParts DEF Holds, SlotsTyped
<1>4. UNCHANGED <<ledger, calls, results>> /\ reply' = reply /\ usage' = usage
  OBVIOUS
<1>5. WorkTyped'
  BY <1>4, TypedParts DEF WorkTyped
<1> QED
  BY <1>1, <1>2, <1>3, <1>4, <1>5, QuietStep

LEMMA LeaveStep ==
  ASSUME IInv, NEW w \in AllWorkers, Leave(w) PROVE IInv'
<1>1. /\ at[w] = "idle" /\ at' = [at EXCEPT ![w] = "done"] /\ firstErr' = firstErr
      /\ UNCHANGED <<ledger, calls, results>> /\ slots' = slots
      /\ UNCHANGED <<batch, attempt>> /\ reply' = reply /\ usage' = usage
  BY DEF Leave, Move, work
<1>2. /\ "done" \in Places /\ Flying("done") = Flying(at[w])
      /\ Holds("done") = 0 /\ Holds(at[w]) = 0
      /\ at[w] \notin Working /\ "done" \notin Working
  BY <1>1 DEF Places, Flying, Holds, Working
<1>3. slots' = slots - Holds(at[w]) + Holds("done") /\ slots' <= Concurrency
  BY <1>1, <1>2, TypedParts DEF SlotsTyped
<1>4. WorkTyped' /\ ErrorsKept /\ Carried(w, "done")
  BY <1>1, TypedParts, KeepErrors, KeepCarries DEF WorkTyped
<1> QED
  BY <1>1, <1>2, <1>3, <1>4, QuietStep

LEMMA AcquireStep ==
  ASSUME IInv, NEW w \in AllWorkers, Acquire(w) PROVE IInv'
<1>1. CASE Stopped(CallOf(w)) /\ at[w] = "acquire" /\ RecordError(w, "cancelled")
           /\ UNCHANGED slots
  <2>1. "cancelled" \in Errors /\ Holds(at[w]) = 0 /\ slots \in Nat
    BY <1>1, TypedParts DEF Errors, Holds
  <2>2. slots' = slots - Holds(at[w]) /\ UNCHANGED <<ledger, calls, reply, usage, results>>
    BY <1>1, <2>1 DEF Acquire
  <2> QED
    BY <1>1, <2>1, <2>2, ErrorStep
<1>2. CASE slots < Concurrency /\ Move(w, "acquire", "reserve") /\ slots' = slots + 1 /\ Keep
  <2>1. /\ at[w] = "acquire" /\ at' = [at EXCEPT ![w] = "reserve"] /\ firstErr' = firstErr
        /\ UNCHANGED <<ledger, calls, results>>
        /\ UNCHANGED <<batch, attempt>> /\ reply' = reply /\ usage' = usage
    BY <1>2 DEF Acquire, Move, Keep
  <2>2. /\ "reserve" \in Places /\ Flying("reserve") = Flying(at[w])
        /\ Holds("reserve") = 1 /\ Holds(at[w]) = 0
        /\ at[w] \in Working /\ "reserve" \in Working
    BY <2>1 DEF Places, Flying, Holds, Working
  <2>3. slots' = slots - Holds(at[w]) + Holds("reserve") /\ slots' <= Concurrency
    BY <1>2, <2>2, TypedParts DEF SlotsTyped
  <2>4. WorkTyped' /\ ErrorsKept /\ Carried(w, "reserve")
    BY <2>1, TypedParts, KeepErrors, KeepCarries DEF WorkTyped
  <2> QED
    BY <2>1, <2>2, <2>3, <2>4, QuietStep
<1> QED
  BY <1>1, <1>2 DEF Acquire

LEMMA ReserveStep ==
  ASSUME IInv, NEW w \in AllWorkers, Reserve(w) PROVE IInv'
<1>1. ASSUME NEW e \in {"cancelled", "budget"}, Refuse(w, e),
             e = "cancelled" => Stopped(CallOf(w))
      PROVE  IInv'
  <2>1. e \in Errors /\ Holds(at[w]) = 1 /\ at[w] \notin {"calling", "settle"}
    BY DEF Errors, Holds, Reserve
  <2>2. /\ RecordError(w, e) /\ slots' = slots - Holds(at[w])
        /\ UNCHANGED <<ledger, calls, reply, usage, results>>
    BY <1>1, <2>1 DEF Refuse
  <2> QED
    BY <1>1, <2>1, <2>2, ErrorStep
<1>2. CASE ~OverBudget /\ Admit(w, Estimate)
  <2>1. /\ at[w] = "reserve" /\ at' = [at EXCEPT ![w] = "calling"] /\ firstErr' = firstErr
        /\ slots' = slots /\ spent' = spent /\ results' = results
        /\ UNCHANGED calls /\ UNCHANGED <<batch, attempt>>
        /\ requests' = requests + 1 /\ tokens' = tokens + Estimate /\ started' = started + 1
        /\ reply' = reply /\ usage' = usage
    BY <1>2 DEF Admit, Move, work
  <2>2. "calling" \in Places /\ at[w] \in Working /\ "calling" \in Working
    BY <2>1 DEF Places, Working
  <2>3. WorkTyped' /\ ErrorsKept /\ SlotsTyped' /\ ResultsTyped' /\ Carried(w, "calling")
    BY <2>1, TypedParts, KeepErrors, KeepCarries DEF WorkTyped, SlotsTyped, ResultsTyped
  <2>4. LedgerTyped'
    BY <2>1, TypedParts, GatewayAssumption DEF LedgerTyped
  <2>5. Typed'
    BY <2>1, <2>2, <2>3, <2>4, WorkerTyped
  <2>6. Delivered' /\ Caused'
    BY <2>1, <2>2, <2>3, WorkerDelivers
  <2>7. Counted' /\ Ceiling'
    BY <1>2, <2>1, AdmitBudget
  <2> QED
    BY <2>5, <2>6, <2>7 DEF IInv
<1> QED
  BY <1>1, <1>2 DEF Reserve

LEMMA ReplyStep ==
  ASSUME IInv, NEW w \in AllWorkers, Reply(w) PROVE IInv'
<1>1. PICK kind \in Replies \ {"cancelled"}, n \in 0..MaxActual :
         /\ reply' = [reply EXCEPT ![w] = IF Stopped(CallOf(w)) THEN "cancelled" ELSE kind]
         /\ usage' = [usage EXCEPT ![w] = n]
  BY GatewayAssumption DEF Reply
<1>2. /\ at[w] = "calling" /\ at' = [at EXCEPT ![w] = "settle"] /\ firstErr' = firstErr
      /\ UNCHANGED <<ledger, calls, results>> /\ slots' = slots - 1
      /\ UNCHANGED <<batch, attempt>>
  BY DEF Reply, Move
<1>3. /\ "settle" \in Places /\ Flying("settle") = Flying(at[w])
      /\ Holds("settle") = 0 /\ Holds(at[w]) = 1
      /\ at[w] \in Working /\ "settle" \in Working
  BY <1>2 DEF Places, Flying, Holds, Working
<1>4. slots' = slots - Holds(at[w]) + Holds("settle") /\ slots' <= Concurrency
  BY <1>2, <1>3, TypedParts DEF SlotsTyped
<1>5. WorkTyped' /\ ErrorsKept /\ Carried(w, "settle")
  BY <1>1, <1>2, TypedParts, KeepErrors, KeepCarries DEF WorkTyped, Replies
<1>6. ASSUME NEW v \in AllWorkers, reply'[v] = "cancelled"
      PROVE  reply[v] = "cancelled" \/ Stopped(CallOf(v))
  BY <1>1, <1>6, TypedParts DEF WorkTyped
<1> QED
  BY <1>2, <1>3, <1>4, <1>5, <1>6, QuietStep

LEMMA CheckRetryStep ==
  ASSUME IInv, NEW w \in AllWorkers, CheckRetry(w) PROVE IInv'
<1>1. at[w] = "retry" /\ UNCHANGED <<ledger, calls, reply, usage, slots, results>>
  BY DEF CheckRetry
<1>2. CASE RecordError(w, "budget")
  <2>1. "budget" \in Errors /\ Holds(at[w]) = 0 /\ slots \in Nat
    BY <1>1, TypedParts DEF Errors, Holds
  <2>2. slots' = slots - Holds(at[w]) /\ UNCHANGED <<ledger, calls, reply, usage, results>>
    BY <1>1, <2>1
  <2> QED
    BY <1>1, <1>2, <2>1, <2>2, ErrorStep
<1>3. CASE Move(w, "retry", "backoff") /\ Keep
  <2>1. /\ at' = [at EXCEPT ![w] = "backoff"] /\ firstErr' = firstErr
        /\ UNCHANGED <<ledger, calls, results>> /\ slots' = slots
        /\ UNCHANGED <<batch, attempt>> /\ reply' = reply /\ usage' = usage
    BY <1>1, <1>3 DEF Move, Keep
  <2>2. /\ "backoff" \in Places /\ Flying("backoff") = Flying(at[w])
        /\ Holds("backoff") = 0 /\ Holds(at[w]) = 0
        /\ at[w] \in Working /\ "backoff" \in Working
    BY <1>1 DEF Places, Flying, Holds, Working
  <2>3. slots' = slots - Holds(at[w]) + Holds("backoff") /\ slots' <= Concurrency
    BY <2>1, <2>2, TypedParts DEF SlotsTyped
  <2>4. WorkTyped' /\ ErrorsKept /\ Carried(w, "backoff")
    BY <2>1, TypedParts, KeepErrors, KeepCarries DEF WorkTyped
  <2>5. attempt'[w] < MaxAttempts
    BY <1>1, <2>1 DEF IInv, Typed
  <2> QED
    BY <2>1, <2>2, <2>3, <2>4, <2>5, QuietStep
<1> QED
  BY <1>2, <1>3 DEF CheckRetry

LEMMA BackoffStep ==
  ASSUME IInv, NEW w \in AllWorkers, Backoff(w) PROVE IInv'
<1>1. at[w] = "backoff" /\ UNCHANGED <<ledger, calls, slots, results, reply, usage>>
  BY DEF Backoff, Move
<1>2. CASE Stopped(CallOf(w)) /\ RecordError(w, "cancelled")
  <2>1. "cancelled" \in Errors /\ Holds(at[w]) = 0 /\ slots \in Nat
    BY <1>1, TypedParts DEF Errors, Holds
  <2>2. slots' = slots - Holds(at[w]) /\ UNCHANGED <<ledger, calls, reply, usage, results>>
    BY <1>1, <1>2, <2>1
  <2> QED
    BY <1>1, <1>2, <2>1, <2>2, ErrorStep
<1>3. CASE /\ Move(w, "backoff", "acquire") /\ UNCHANGED <<firstErr, batch>>
           /\ attempt' = [attempt EXCEPT ![w] = @ + 1]
  <2>1. /\ at' = [at EXCEPT ![w] = "acquire"] /\ firstErr' = firstErr
        /\ UNCHANGED <<ledger, calls, results>> /\ slots' = slots
        /\ batch' = batch /\ reply' = reply /\ usage' = usage
    BY <1>1, <1>3 DEF Move
  <2>2. /\ "acquire" \in Places /\ Flying("acquire") = Flying(at[w])
        /\ Holds("acquire") = 0 /\ Holds(at[w]) = 0
        /\ at[w] \in Working /\ "acquire" \in Working
    BY <1>1 DEF Places, Flying, Holds, Working
  <2>3. slots' = slots - Holds(at[w]) + Holds("acquire") /\ slots' <= Concurrency
    BY <2>1, <2>2, TypedParts DEF SlotsTyped
  <2>4. /\ attempt \in [AllWorkers -> 0..MaxAttempts] /\ attempt[w] < MaxAttempts
        /\ batch \in [AllWorkers -> Nat]
    BY <1>1 DEF IInv, Typed, TypeOK
  <2>5. /\ attempt' \in [AllWorkers -> 0..MaxAttempts]
        /\ \A v \in AllWorkers : v # w => attempt'[v] = attempt[v]
    BY <1>3, <2>4, GatewayAssumption
  <2>6. WorkTyped' /\ ErrorsKept /\ Carried(w, "acquire")
    BY <2>1, <2>4, <2>5, TypedParts, KeepErrors DEF WorkTyped, Carried
  <2> QED
    BY <2>1, <2>2, <2>3, <2>6, QuietStep
<1> QED
  BY <1>2, <1>3 DEF Backoff

\* The three ways an answer is taken.
LEMMA SettleTo ==
  ASSUME IInv, NEW w \in AllWorkers, Settle(w), NEW p \in {"idle", "retry", "done"},
         at' = [at EXCEPT ![w] = p], ErrorsKept, Carried(w, p), ResultsTyped',
         \A c \in Calls : results[c] \subseteq results'[c],
         p = "idle" => batch[w] \in results'[CallOf(w)],
         p = "done" => firstErr'[CallOf(w)] # "none",
         p = "retry" => attempt'[w] < MaxAttempts
  PROVE  IInv'
<1>1. /\ at[w] = "settle" /\ tokens' = tokens - Estimate + usage[w] /\ spent' = spent + usage[w]
      /\ reply' = [reply EXCEPT ![w] = "ok"] /\ usage' = [usage EXCEPT ![w] = 0]
      /\ UNCHANGED calls /\ UNCHANGED <<requests, started, slots>>
  BY DEF Settle
<1>2. /\ p \in Places /\ at[w] \in Working
      /\ p \in Working <=> p = "retry"
      /\ p \in {"retry", "backoff"} <=> p = "retry"
  BY <1>1 DEF Places, Working
<1>3. Counted' /\ Ceiling'
  BY <1>1, SettleBudget
<1>4. usage[w] \in Nat /\ Estimate \in Nat
  BY TypedParts, GatewayAssumption DEF WorkTyped
<1>5. LedgerTyped' /\ SlotsTyped'
  BY <1>1, <1>4, TypedParts DEF LedgerTyped, SlotsTyped
<1>6. WorkTyped'
  <2>1. "ok" \in Replies /\ 0 \in 0..MaxActual
    BY GatewayAssumption DEF Replies
  <2> QED
    BY <1>1, <2>1, TypedParts DEF WorkTyped
<1>7. ASSUME NEW v \in AllWorkers, reply'[v] = "cancelled" PROVE reply[v] = "cancelled"
  BY <1>1, <1>7, TypedParts DEF WorkTyped
<1>8. Typed'
  BY <1>1, <1>2, <1>5, <1>6, WorkerTyped
<1>9. Delivered' /\ Caused'
  BY <1>1, <1>2, <1>7, WorkerDelivers
<1> QED
  BY <1>3, <1>8, <1>9 DEF IInv

LEMMA SettleStep ==
  ASSUME IInv, NEW w \in AllWorkers, Settle(w) PROVE IInv'
<1> DEFINE c == CallOf(w)
<1>1. c \in Calls /\ at[w] = "settle" /\ reply[w] \in Replies
  BY WorkerCall, TypedParts DEF Settle, WorkTyped
<1>2. ASSUME NEW e \in Errors, RecordError(w, e), UNCHANGED results,
             e = "cancelled" => Stopped(c)
      PROVE  IInv'
  <2>1. /\ ErrorsKept /\ firstErr'[c] # "none" /\ at' = [at EXCEPT ![w] = "done"]
        /\ Carried(w, "done")
    BY <1>2, RecordKeeps
  <2>2. ResultsTyped' /\ \A k \in Calls : results[k] \subseteq results'[k]
    BY <1>2, TypedParts DEF ResultsTyped
  <2> QED
    BY <2>1, <2>2, SettleTo
<1>3. CASE RecordError(w, "budget") /\ UNCHANGED results
  BY <1>2, <1>3 DEF Errors
<1>4. CASE /\ results' = [results EXCEPT ![c] = results[c] \cup {batch[w]}]
           /\ Move(w, "settle", "idle") /\ Drop(w) /\ UNCHANGED firstErr
  <2>1. batch[w] \in 1..Batches[c]
    BY <1>1 DEF IInv, Typed, Working, Places
  <2>2. /\ \A k \in Calls : k # c => results'[k] = results[k]
        /\ results'[c] = results[c] \cup {batch[w]}
    <3>1. results \in [Calls -> SUBSET Nat]
      BY DEF IInv, Typed, TypeOK
    <3> QED
      BY <1>1, <1>4, <3>1
  <2>3. ResultsTyped'
    <3>1. Batches[c] \in Nat /\ results \in [Calls -> SUBSET Nat]
      BY <1>1, GatewayAssumption DEF IInv, Typed, TypeOK
    <3>2. results' \in [Calls -> SUBSET Nat]
      BY <1>1, <1>4, <2>1, <3>1
    <3> QED
      BY <1>1, <2>1, <2>2, <3>2, TypedParts DEF ResultsTyped
  <2>4. \A k \in Calls : results[k] \subseteq results'[k]
    BY <2>2
  <2>5. batch[w] \in results'[c]
    BY <2>2
  <2>6. ErrorsKept /\ at' = [at EXCEPT ![w] = "idle"] /\ Carried(w, "idle")
    BY <1>4, KeepErrors, DropCarries DEF Move, Working
  <2> QED
    BY <2>3, <2>4, <2>5, <2>6, SettleTo
<1>5. CASE Repeatable(w) /\ Move(w, "settle", "retry") /\ Keep /\ UNCHANGED results
  <2>1. /\ ErrorsKept /\ at' = [at EXCEPT ![w] = "retry"] /\ Carried(w, "retry")
        /\ attempt'[w] < MaxAttempts
    BY <1>5, KeepErrors, KeepCarries DEF Keep, Move, Repeatable
  <2>2. ResultsTyped' /\ \A k \in Calls : results[k] \subseteq results'[k]
    BY <1>5, TypedParts DEF ResultsTyped
  <2> QED
    BY <2>1, <2>2, SettleTo
<1>6. CASE /\ reply[w] # "ok" /\ UNCHANGED results
           /\ RecordError(w, IF reply[w] = "transient" THEN "provider" ELSE reply[w])
  <2> DEFINE e == IF reply[w] = "transient" THEN "provider" ELSE reply[w]
  <2>1. e \in Errors /\ (e = "cancelled" => reply[w] = "cancelled")
    BY <1>1, <1>6 DEF Replies, Errors
  <2>2. e = "cancelled" => Stopped(c)
    BY <2>1 DEF IInv, Caused
  <2>3. PICK f \in Errors : f = e
    BY <2>1
  <2> QED
    BY <1>2, <1>6, <2>2, <2>3
<1> QED
  BY <1>3, <1>4, <1>5, <1>6 DEF Settle

----------------------------------------------------------------------------
(* The caller's goroutine.                                                 *)

LEMMA HandStep ==
  ASSUME IInv, NEW w \in AllWorkers, Hand(w) PROVE IInv'
<1> DEFINE c == CallOf(w)
<1>1. /\ main[c] = "sending" /\ sent[c] < Batches[c] /\ at[w] = "idle"
      /\ at' = [at EXCEPT ![w] = "acquire"] /\ sent' = [sent EXCEPT ![c] = sent[c] + 1]
      /\ batch' = [batch EXCEPT ![w] = sent[c] + 1] /\ attempt' = [attempt EXCEPT ![w] = 1]
      /\ slots' = slots /\ main' = main /\ ended' = ended /\ firstErr' = firstErr
      /\ results' = results /\ outcome' = outcome /\ reply' = reply /\ usage' = usage
      /\ UNCHANGED ledger
  BY DEF Hand, Move
<1>2. c \in Calls /\ w \in Workers(c)
  BY WorkerCall
<1>3. /\ sent[c] \in Nat /\ Batches[c] \in Nat /\ sent[c] + 1 \in 1..Batches[c]
      /\ 1 \in 0..MaxAttempts /\ Typed
  <2>1. sent[c] \in Nat /\ Batches[c] \in Nat /\ MaxAttempts \in Nat \ {0} /\ Typed
    BY <1>2, GatewayAssumption DEF IInv, Typed, TypeOK
  <2> QED
    BY <1>1, <2>1
<1>4. /\ "acquire" \in Places /\ Flying("acquire") = Flying(at[w])
      /\ Holds("acquire") = 0 /\ Holds(at[w]) = 0
      /\ at[w] \notin Working /\ "acquire" \in Working
  BY <1>1 DEF Places, Flying, Holds, Working
<1>5. Counted' /\ Ceiling'
  <2>1. slots' = slots - Holds(at[w]) + Holds("acquire")
    BY <1>1, <1>4, TypedParts
  <2> QED
    BY <1>1, <1>4, <2>1, SameFlight
<1>6. /\ at'[w] = "acquire" /\ batch'[w] = sent[c] + 1
      /\ \A v \in AllWorkers : v # w => at'[v] = at[v] /\ batch'[v] = batch[v]
      /\ at' \in [AllWorkers -> Places] /\ batch' \in [AllWorkers -> Nat]
  BY <1>1, <1>3, <1>4 DEF Typed, TypeOK
<1>7. /\ attempt' \in [AllWorkers -> 0..MaxAttempts]
      /\ \A v \in AllWorkers : v # w => attempt'[v] = attempt[v]
  BY <1>1, <1>3 DEF Typed, TypeOK
<1>8. \A k \in Calls : sent'[k] = IF k = c THEN sent[c] + 1 ELSE sent[k]
  <2>1. sent \in [Calls -> Nat]
    BY <1>3 DEF Typed, TypeOK
  <2> QED
    BY <1>1, <1>2, <2>1
<1> HIDE DEF c
<1>9. TypeOK'
  <2>1. \A k \in Calls : sent'[k] \in 0..Batches[k] /\ results'[k] \subseteq 1..Batches[k]
    BY <1>1, <1>3, <1>8 DEF Typed, TypeOK
  <2>2. requests' = requests /\ tokens' = tokens /\ started' = started /\ spent' = spent
    BY <1>1 DEF ledger
  <2> QED
    BY <1>1, <1>3, <1>6, <1>7, <2>1, <2>2 DEF Typed, TypeOK
<1>10. Typed'
  <2>1. \A v \in AllWorkers : at'[v] \in {"retry", "backoff"} => attempt'[v] < MaxAttempts
    BY <1>3, <1>6, <1>7 DEF Typed
  <2>2. \A v \in AllWorkers : at'[v] \in Working => batch'[v] \in 1..Batches[CallOf(v)]
    BY <1>3, <1>6 DEF Typed, c
  <2> QED
    BY <1>9, <2>1, <2>2 DEF Typed, CallOf
<1>11. ASSUME NEW k \in Calls, NEW b \in 1..sent'[k] PROVE BatchKept(k, b)'
  <2>1. CASE k = c /\ b = sent[c] + 1
    <3>1. w \in Workers(k) /\ at'[w] \in Working /\ batch'[w] = b
      BY <1>2, <1>4, <1>6, <2>1
    <3> QED
      BY <3>1 DEF BatchKept
  <2>2. CASE ~(k = c /\ b = sent[c] + 1)
    <3>1. b \in 1..sent[k]
      BY <1>3, <1>8, <2>2
    <3>2. BatchKept(k, b)
      BY <3>1 DEF IInv, Delivered
    <3>3. ASSUME NEW v \in Workers(k), at[v] \in Working, batch[v] = b
          PROVE  at'[v] \in Working /\ batch'[v] = b
      BY <1>4, <1>6, <3>3, WorkerCall
    <3> QED
      BY <1>1, <3>2, <3>3 DEF BatchKept
  <2> QED
    BY <2>1, <2>2
<1>12. Delivered'
  <2>1. \A k \in Calls : main'[k] # "sending" => sent'[k] = Batches[k] \/ Stopped(k)'
    BY <1>1, <1>8 DEF IInv, Delivered, Stopped
  <2>2. SuccessIsComplete'
    BY <1>1 DEF IInv, Delivered, SuccessIsComplete
  <2> QED
    BY <1>11, <2>1, <2>2 DEF Delivered
<1>13. Caused'
  BY <1>1 DEF IInv, Caused, Stopped, ErrorIsCause, CallOf
<1> QED
  BY <1>5, <1>10, <1>12, <1>13 DEF IInv

\* A step of a call that touches no worker: the batches stay where they are.
LEMMA CallKeeps ==
  ASSUME IInv, UNCHANGED <<ledger, work, slots, sent, firstErr, results, at>>,
         main' \in [Calls -> {"sending", "draining", "returned"}],
         ended' \in [Calls -> BOOLEAN], outcome' \in [Calls -> Errors \cup {"none", "ok"}],
         \A c \in Calls : ended[c] => ended'[c]
  PROVE  /\ Typed' /\ Counted' /\ Ceiling'
         /\ \A c \in Calls : \A b \in 1..sent'[c] : BatchKept(c, b)'
         /\ \A c \in Calls : Stopped(c) => Stopped(c)'
         /\ \A c \in Calls : firstErr'[c] = "cancelled" => ended'[c]
         /\ \A w \in AllWorkers : reply'[w] = "cancelled" => Stopped(CallOf(w))'
<1>1. Counted' /\ Ceiling'
  BY NoMove
<1>2. Typed'
  BY DEF IInv, Typed, TypeOK, ledger, work, CallOf
<1>3. \A c \in Calls : \A b \in 1..sent'[c] : BatchKept(c, b)'
  BY DEF IInv, Delivered, BatchKept, work
<1>4. \A c \in Calls : Stopped(c) => Stopped(c)'
  BY DEF Stopped
<1>5. \A c \in Calls : firstErr'[c] = "cancelled" => ended'[c]
  BY DEF IInv, Caused
<1>6. ASSUME NEW w \in AllWorkers, reply'[w] = "cancelled" PROVE Stopped(CallOf(w))'
  <2>1. Stopped(CallOf(w)) /\ CallOf(w) \in Calls
    BY <1>6, WorkerCall DEF IInv, Caused, work
  <2> QED
    BY <1>4, <2>1 DEF CallOf
<1> QED
  BY <1>1, <1>2, <1>3, <1>4, <1>5, <1>6

LEMMA CloseJobsStep ==
  ASSUME IInv, NEW c \in Calls, CloseJobs(c) PROVE IInv'
<1>1. /\ main' = [main EXCEPT ![c] = "draining"] /\ ended' = ended /\ outcome' = outcome
      /\ sent' = sent /\ results' = results
      /\ UNCHANGED <<ledger, work, slots, sent, firstErr, results, at>>
      /\ sent[c] = Batches[c] \/ Stopped(c)
      /\ TypeOK
  BY DEF CloseJobs, IInv, Typed
<1>2. /\ main' \in [Calls -> {"sending", "draining", "returned"}]
      /\ ended' \in [Calls -> BOOLEAN] /\ outcome' \in [Calls -> Errors \cup {"none", "ok"}]
      /\ \A k \in Calls : ended[k] => ended'[k]
      /\ \A k \in Calls : k # c => main'[k] = main[k]
  BY <1>1 DEF TypeOK
<1>3. /\ Typed' /\ Counted' /\ Ceiling'
      /\ \A k \in Calls : \A b \in 1..sent'[k] : BatchKept(k, b)'
      /\ \A k \in Calls : Stopped(k) => Stopped(k)'
      /\ \A k \in Calls : firstErr'[k] = "cancelled" => ended'[k]
      /\ \A w \in AllWorkers : reply'[w] = "cancelled" => Stopped(CallOf(w))'
  BY <1>1, <1>2, CallKeeps
<1>4. \A k \in Calls : main'[k] # "sending" => sent'[k] = Batches[k] \/ Stopped(k)'
  BY <1>1, <1>2, <1>3 DEF IInv, Delivered
<1>5. SuccessIsComplete' /\ ErrorIsCause'
  BY <1>1 DEF IInv, Delivered, Caused, SuccessIsComplete, ErrorIsCause
<1> QED
  BY <1>3, <1>4, <1>5 DEF IInv, Delivered, Caused

LEMMA EndContextStep ==
  ASSUME IInv, NEW c \in Calls, EndContext(c) PROVE IInv'
<1>1. /\ main' = main /\ ended' = [ended EXCEPT ![c] = TRUE] /\ outcome' = outcome
      /\ sent' = sent /\ results' = results
      /\ UNCHANGED <<ledger, work, slots, sent, firstErr, results, at>>
      /\ TypeOK
  BY DEF EndContext, IInv, Typed
<1>2. /\ main' \in [Calls -> {"sending", "draining", "returned"}]
      /\ ended' \in [Calls -> BOOLEAN] /\ outcome' \in [Calls -> Errors \cup {"none", "ok"}]
      /\ \A k \in Calls : ended[k] => ended'[k]
  BY <1>1 DEF TypeOK
<1>3. /\ Typed' /\ Counted' /\ Ceiling'
      /\ \A k \in Calls : \A b \in 1..sent'[k] : BatchKept(k, b)'
      /\ \A k \in Calls : Stopped(k) => Stopped(k)'
      /\ \A k \in Calls : firstErr'[k] = "cancelled" => ended'[k]
      /\ \A w \in AllWorkers : reply'[w] = "cancelled" => Stopped(CallOf(w))'
  BY <1>1, <1>2, CallKeeps
<1>4. \A k \in Calls : main'[k] # "sending" => sent'[k] = Batches[k] \/ Stopped(k)'
  BY <1>1, <1>3 DEF IInv, Delivered
<1>5. SuccessIsComplete' /\ ErrorIsCause'
  BY <1>1, <1>2 DEF IInv, Delivered, Caused, SuccessIsComplete, ErrorIsCause
<1> QED
  BY <1>3, <1>4, <1>5 DEF IInv, Delivered, Caused

LEMMA ReturnStep ==
  ASSUME IInv, NEW c \in Calls, Return(c) PROVE IInv'
<1> DEFINE result == IF firstErr[c] # "none" THEN firstErr[c]
                     ELSE IF ended[c] THEN "cancelled" ELSE "ok"
<1>1. /\ main[c] = "draining" /\ \A w \in Workers(c) : at[w] = "done"
      /\ main' = [main EXCEPT ![c] = "returned"] /\ outcome' = [outcome EXCEPT ![c] = result]
      /\ ended' = ended /\ sent' = sent /\ results' = results
      /\ UNCHANGED <<ledger, work, slots, sent, firstErr, results, at>>
      /\ TypeOK
  BY DEF Return, Finish, IInv, Typed
<1>2. result \in Errors \cup {"none", "ok"}
  BY <1>1 DEF TypeOK, Errors
<1>3. /\ result = "ok" => firstErr[c] = "none" /\ ~ended[c]
      /\ result = "cancelled" => ended[c]
  BY DEF IInv, Caused, Typed, TypeOK, Errors
<1> HIDE DEF result
<1>4. /\ main' \in [Calls -> {"sending", "draining", "returned"}]
      /\ ended' \in [Calls -> BOOLEAN] /\ outcome' \in [Calls -> Errors \cup {"none", "ok"}]
      /\ \A k \in Calls : ended[k] => ended'[k]
      /\ \A k \in Calls : k # c => main'[k] = main[k] /\ outcome'[k] = outcome[k]
      /\ outcome'[c] = result
  BY <1>1, <1>2 DEF TypeOK
<1>5. /\ Typed' /\ Counted' /\ Ceiling'
      /\ \A k \in Calls : \A b \in 1..sent'[k] : BatchKept(k, b)'
      /\ \A k \in Calls : Stopped(k) => Stopped(k)'
      /\ \A k \in Calls : firstErr'[k] = "cancelled" => ended'[k]
      /\ \A w \in AllWorkers : reply'[w] = "cancelled" => Stopped(CallOf(w))'
  BY <1>1, <1>4, CallKeeps
<1>6. \A k \in Calls : main'[k] # "sending" => sent'[k] = Batches[k] \/ Stopped(k)'
  BY <1>1, <1>4, <1>5 DEF IInv, Delivered
<1>7. result = "ok" => results[c] = 1..Batches[c]
  <2> SUFFICES ASSUME result = "ok" PROVE results[c] = 1..Batches[c]
    OBVIOUS
  <2>1. firstErr[c] = "none" /\ sent[c] = Batches[c]
    BY <1>1, <1>3 DEF IInv, Delivered, Stopped
  <2>2. ASSUME NEW b \in 1..Batches[c] PROVE b \in results[c]
    <3>1. BatchKept(c, b)
      BY <2>1 DEF IInv, Delivered
    <3>2. \A w \in Workers(c) : at[w] \notin Working
      BY <1>1 DEF Working
    <3> QED
      BY <2>1, <3>1, <3>2 DEF BatchKept
  <2> QED
    BY <2>2, TypedParts DEF ResultsTyped
<1>8. SuccessIsComplete'
  BY <1>1, <1>4, <1>7 DEF IInv, Delivered, SuccessIsComplete
<1>9. ErrorIsCause'
  BY <1>1, <1>3, <1>4 DEF IInv, Caused, ErrorIsCause
<1> QED
  BY <1>5, <1>6, <1>8, <1>9 DEF IInv, Delivered, Caused

----------------------------------------------------------------------------
LEMMA InitIInv == Init => IInv
<1> SUFFICES ASSUME Init PROVE IInv
  OBVIOUS
<1>1. \A w \in AllWorkers : at[w] = "idle" /\ reply[w] = "ok"
  BY DEF Init
<1>2. \A c \in Calls : /\ main[c] = "sending" /\ sent[c] = 0 /\ ~ended[c] /\ firstErr[c] = "none"
                       /\ results[c] = {} /\ outcome[c] = "none" /\ Batches[c] \in Nat
  BY GatewayAssumption DEF Init
<1>3. TypeOK
  <2>1. 0 \in 0..Concurrency /\ 0 \in 0..MaxAttempts /\ 0 \in 0..MaxActual
    BY GatewayAssumption
  <2>2. \A c \in Calls : sent[c] \in 0..Batches[c] /\ results[c] \subseteq 1..Batches[c]
    BY <1>2
  <2> QED
    BY <2>1, <2>2 DEF Init, TypeOK, Errors, Places, Replies
<1>4. Typed
  BY <1>1, <1>3 DEF Typed, Working
<1>5. InFlight = {} /\ Holding = {}
  BY <1>1 DEF InFlight, Holding
<1>6. Counted
  <2>1. Estimate * 0 = 0
    BY GatewayAssumption
  <2> QED
    BY <1>5, <2>1, FS_EmptySet DEF Counted, BudgetConserved, Init
<1>7. Ceiling
  <2>1. Cardinality(AllWorkers) \in Nat
    BY WorkersFinite, FS_CardinalityType
  <2>2. Cardinality(InFlight) = 0 /\ spent = 0 /\ started = 0 /\ MaxActual * 0 = 0
    BY <1>5, FS_EmptySet, GatewayAssumption DEF Init
  <2>3. ASSUME MaxActual >= Estimate
        PROVE  0 <= MaxTokens + (MaxActual - Estimate) * Cardinality(AllWorkers)
    <3>1. MaxActual - Estimate \in Nat /\ MaxTokens \in Nat
      BY <2>3, GatewayAssumption
    <3>2. (MaxActual - Estimate) * Cardinality(AllWorkers) \in Nat
      BY <2>1, <3>1
    <3> QED
      BY <3>1, <3>2
  <2>4. MaxRequests > 0 => started <= MaxRequests
    BY <2>2, GatewayAssumption
  <2>5. spent + MaxActual * Cardinality(InFlight) = 0
    BY <2>2
  <2> QED
    BY <2>3, <2>4, <2>5 DEF Ceiling
<1>8. Delivered
  BY <1>2 DEF Delivered, SuccessIsComplete
<1>9. Caused
  BY <1>1, <1>2 DEF Caused, ErrorIsCause
<1> QED
  BY <1>4, <1>6, <1>7, <1>8, <1>9 DEF IInv

LEMMA StepIInv == IInv /\ [Next]_vars => IInv'
<1> SUFFICES ASSUME IInv, [Next]_vars PROVE IInv'
  OBVIOUS
<1>1. CASE UNCHANGED vars
  <2>1. /\ UNCHANGED <<ledger, work, slots, sent, firstErr, results, at>>
        /\ main' = main /\ ended' = ended /\ outcome' = outcome /\ sent' = sent /\ results' = results
    BY <1>1 DEF vars, calls
  <2>2. /\ main' \in [Calls -> {"sending", "draining", "returned"}]
        /\ ended' \in [Calls -> BOOLEAN] /\ outcome' \in [Calls -> Errors \cup {"none", "ok"}]
    BY <2>1 DEF IInv, Typed, TypeOK
  <2>3. /\ Typed' /\ Counted' /\ Ceiling'
        /\ \A k \in Calls : \A b \in 1..sent'[k] : BatchKept(k, b)'
        /\ \A k \in Calls : Stopped(k) => Stopped(k)'
        /\ \A k \in Calls : firstErr'[k] = "cancelled" => ended'[k]
        /\ \A w \in AllWorkers : reply'[w] = "cancelled" => Stopped(CallOf(w))'
    BY <2>1, <2>2, CallKeeps
  <2>4. \A k \in Calls : main'[k] # "sending" => sent'[k] = Batches[k] \/ Stopped(k)'
    BY <2>1, <2>3 DEF IInv, Delivered
  <2>5. SuccessIsComplete' /\ ErrorIsCause'
    BY <2>1 DEF IInv, Delivered, Caused, SuccessIsComplete, ErrorIsCause
  <2> QED
    BY <2>3, <2>4, <2>5 DEF IInv, Delivered, Caused
<1>2. ASSUME NEW w \in AllWorkers, WorkerStep(w) PROVE IInv'
  BY <1>2, HandStep, LeaveStep, AcquireStep, ReserveStep, ReplyStep, SettleStep, CheckRetryStep,
     BackoffStep DEF WorkerStep
<1>3. ASSUME NEW c \in Calls, CloseJobs(c) \/ Return(c) \/ EndContext(c) PROVE IInv'
  BY <1>3, CloseJobsStep, ReturnStep, EndContextStep
<1> QED
  BY <1>1, <1>2, <1>3 DEF Next

LEMMA Invariance == Spec => []IInv
<1>1. Init => IInv
  BY InitIInv
<1>2. IInv /\ [Next]_vars => IInv'
  BY StepIInv
<1> QED
  BY <1>1, <1>2, PTL DEF Spec

\* Workers, slots and attempts stay within MaxConcurrency and MaxAttempts, and
\* a worker only ever carries a batch of its own call.
THEOREM GatewayTyped == Spec => []TypeOK
<1>1. IInv => TypeOK
  BY DEF IInv, Typed
<1> QED
  BY <1>1, Invariance, PTL

\* BudgetLedger.reserve and settle, and the slots channel: however the attempts
\* of any number of calls interleave and end, the ledger is what was used plus
\* what is reserved, and no slot is lost or given back twice.
THEOREM BudgetIsConserved == Spec => []BudgetConserved
<1>1. IInv => BudgetConserved
  BY DEF IInv, Counted
<1> QED
  BY <1>1, Invariance, PTL

\* MaxRequests is never passed, retries included, and MaxInputTokens by no more
\* than what attempts admitted below the limit use above their estimates.
THEOREM SpendingIsBounded == Spec => []SpendingBounded
<1>1. IInv => SpendingBounded
  <2> SUFFICES ASSUME IInv PROVE SpendingBounded
    OBVIOUS
  <2>1. Cardinality(InFlight) \in Nat /\ Cardinality(AllWorkers) \in Nat
    BY WorkersFinite, FS_CardinalityType DEF IInv, Counted
  <2>2. spent \in Nat /\ MaxActual \in Nat /\ Estimate \in Nat /\ MaxTokens \in Nat
    BY GatewayAssumption DEF IInv, Typed, TypeOK
  <2>3. /\ MaxActual * Cardinality(InFlight) \in Nat
        /\ (MaxActual - Estimate) * Cardinality(AllWorkers) \in Int
    BY <2>1, <2>2
  <2>4. ASSUME MaxTokens > 0, MaxActual >= Estimate
        PROVE  spent <= MaxTokens + (MaxActual - Estimate) * Cardinality(AllWorkers)
    <3>1. spent + MaxActual * Cardinality(InFlight)
             <= MaxTokens + (MaxActual - Estimate) * Cardinality(AllWorkers)
      BY <2>4 DEF IInv, Ceiling
    <3> QED
      BY <2>2, <2>3, <3>1
  <2> QED
    BY <2>4 DEF IInv, Ceiling, SpendingBounded
<1> QED
  BY <1>1, Invariance, PTL

\* runEmbeddingBatches: whatever the workers' order and whoever leaves early,
\* Embed reports success only when every batch has its result.
THEOREM SuccessComplete == Spec => []SuccessIsComplete
<1>1. IInv => SuccessIsComplete
  BY DEF IInv, Delivered
<1> QED
  BY <1>1, Invariance, PTL

\* The sync.Once in runEmbeddingBatches: a cancellation is reported only when
\* the caller's own context ended, never when another worker's error stopped
\* the call.
THEOREM ErrorCause == Spec => []ErrorIsCause
<1>1. IInv => ErrorIsCause
  BY DEF IInv, Caused
<1> QED
  BY <1>1, Invariance, PTL
=============================================================================
