--------------------------- MODULE NotaryRequests ---------------------------
(***************************************************************************)
(* How one node turns the requests posted to it into transactions: the     *)
(* POST /transact handler and the timer of app.js, and the RequestPool.    *)
(* What becomes of a transaction once it is broadcast is NotaryConsensus.  *)
(*                                                                         *)
(* A handler runs to its end before the next one starts, so each is one    *)
(* action.  A pending request is kept with the number of the POST that     *)
(* brought it, which stands for the fresh id it gets while benchmarking.   *)
(***************************************************************************)
EXTENDS Naturals, Sequences, FiniteSets

CONSTANTS
  Request,           \* the bodies that may be posted, told apart by their hash
  Benchmarking,      \* config.BENCHMARK_FLAG
  Dynamic,           \* config.DYNAMIC_REQUEST_POOL_FLAG
  RequestThreshold,  \* config.PENDING_REQUEST_THRESHOLD
  Levels,            \* the request rates at which the timer changes it
  MaxPosts           \* bound: how many requests are ever posted

ASSUME RequestsAssumption ==
  /\ Benchmarking \in BOOLEAN /\ Dynamic \in BOOLEAN
  /\ RequestThreshold \in Nat \ {0}
  /\ IsFiniteSet(Levels) /\ Levels \subseteq Nat \ {0}
  /\ MaxPosts \in Nat

VARIABLES
  posts,         \* how many requests have been posted
  pending,       \* requestPool.pendingRequests
  threshold,     \* config's current request threshold
  requestCount,  \* the posts since the timer last fired
  transactions   \* the data of the transactions broadcast, in order

requestVars == <<posts, pending, threshold, requestCount, transactions>>

Entry == [request : Request, post : 1 .. MaxPosts]

\* What the threshold may be set to: by config.js, by the timer.
Thresholds == {RequestThreshold, 1} \union Levels

RequestsTypeOK ==
  /\ posts \in 0 .. MaxPosts
  /\ pending \subseteq Entry
  /\ threshold \in Thresholds
  /\ requestCount \in 0 .. posts
  /\ transactions \in Seq(SUBSET Entry)

RequestsInit ==
  /\ posts = 0
  /\ pending = {}
  /\ threshold = RequestThreshold
  /\ requestCount = 0
  /\ transactions = <<>>

-----------------------------------------------------------------------------
\* Mutant: a request is never known.
NeverKnown(r) == FALSE

\* Only outside benchmarks are equal requests taken for one.
IsKnown(r) == ~ Benchmarking /\ \E e \in pending : e.request = r

\* Mutant: one request more than the threshold.
IsOverThreshold(pool) == Cardinality(pool) > threshold

IsThresholdReached(pool) == Cardinality(pool) >= threshold

\* Mutant: the pool is read before the request is added to it.
BeforeAdd(pool) == pending

AllPendingRequests(pool) == pool

\* Mutant: the pool is not cleared.
NotCleared(pool) == pool

Cleared(pool) == {}

Transact(r) ==
  LET pool == pending \union {[request |-> r, post |-> posts + 1]} IN
  /\ posts < MaxPosts
  /\ posts' = posts + 1
  /\ requestCount' = requestCount + 1
  /\ \/ /\ IsKnown(r)
        /\ UNCHANGED <<pending, transactions>>
     \/ /\ ~ IsKnown(r) /\ ~ IsThresholdReached(pool)
        /\ pending' = pool
        /\ UNCHANGED transactions
     \/ /\ ~ IsKnown(r) /\ IsThresholdReached(pool)
        /\ transactions' = Append(transactions, AllPendingRequests(pool))
        /\ pending' = Cleared(pool)
  /\ UNCHANGED threshold

\* Mutant: the rate itself is the threshold.
RateItself(count) == count

\* The largest of the levels that the rate is above, or 1.
ThresholdFor(count) ==
  LET passed == {l \in Levels : count > l} \union {1}
  IN  CHOOSE l \in passed : \A k \in passed : k <= l

AdjustRequestThreshold ==
  /\ Dynamic
  /\ threshold' = ThresholdFor(requestCount)
  /\ requestCount' = 0
  /\ UNCHANGED <<posts, pending, transactions>>

RequestsNext == (\E r \in Request : Transact(r)) \/ AdjustRequestThreshold

RequestsSpec == RequestsInit /\ [][RequestsNext]_requestVars
-----------------------------------------------------------------------------
Newest == IF transactions = <<>> THEN {} ELSE transactions[Len(transactions)]

\* A pending request leaves the pool only inside the transaction being
\* broadcast, and the request being posted is then in the pool or in that
\* transaction, whatever the timer did to the threshold in between.
NoRequestLost ==
  [][/\ \A e \in pending \ pending' : e \in Newest'
     /\ \A r \in Request :
          Transact(r) => \E e \in pending' \union Newest' : e.request = r
    ]_requestVars

\* No posted request is in two transactions, or in one and still pending.
BundledOnce ==
  \A i \in DOMAIN transactions :
    /\ transactions[i] \intersect pending = {}
    /\ \A j \in DOMAIN transactions \ {i} :
         transactions[i] \intersect transactions[j] = {}

\* Outside benchmarks no transaction holds two equal requests.
DistinctRequests ==
  ~ Benchmarking =>
    \A i \in DOMAIN transactions : \A d, e \in transactions[i] :
      d.request = e.request => d = e

\* No transaction is larger than some threshold, and fewer requests than that
\* are pending (config.js:29, "Maximum number of GENERAL request before the node
\* bundles them").  The timer may put the threshold below what is pending, and a
\* POST of a known request leaves such a pool as it is (request_pool.js 19-21),
\* but the next new request takes all of it along, so it never grows further.
NoOversizedTransaction ==
  \E m \in Thresholds :
    /\ Cardinality(pending) < m
    /\ \A i \in DOMAIN transactions : Cardinality(transactions[i]) <= m
=============================================================================
