----------------------- MODULE NotaryRequests_proofs -----------------------
(***************************************************************************)
(* No request is lost on its way into a transaction, and none gets into    *)
(* two.  The numbers of the POSTs tell the entries apart: everything       *)
(* pending or bundled was posted, and the next entry has a new number.     *)
(* None of this depends on the threshold; it matters for the last theorem  *)
(* only, which counts what is pending and what is bundled.                 *)
(***************************************************************************)
EXTENDS NotaryRequests, FiniteSetTheorems, WellFoundedInduction, TLAPS

PoolsOK ==
  /\ posts \in Nat
  /\ pending \subseteq Entry
  /\ transactions \in Seq(SUBSET Entry)

EntriesPosted ==
  /\ \A e \in pending : e.post <= posts
  /\ \A i \in DOMAIN transactions : \A e \in transactions[i] : e.post <= posts

RequestsInv == PoolsOK /\ EntriesPosted /\ BundledOnce

\* What the two actions may do: put a new entry into the pool, or move the
\* pool with it into a new transaction.
NewEntry(r) == [request |-> r, post |-> posts + 1]

LEMMA TransactEffect ==
  ASSUME NEW r \in Request, Transact(r)
  PROVE  /\ posts' = posts + 1
         /\ posts < MaxPosts
         /\ \/ UNCHANGED <<pending, transactions>>
            \/ /\ pending' = pending \union {NewEntry(r)}
               /\ UNCHANGED transactions
            \/ /\ pending' = {}
               /\ transactions' =
                    Append(transactions, pending \union {NewEntry(r)})
  BY DEF Transact, NewEntry, AllPendingRequests, Cleared

LEMMA NewEntryType ==
  ASSUME PoolsOK, NEW r \in Request, posts < MaxPosts
  PROVE  NewEntry(r) \in Entry /\ NewEntry(r).post = posts + 1
  BY RequestsAssumption DEF PoolsOK, NewEntry, Entry

LEMMA RequestsInitial == RequestsInit => RequestsInv
  BY DEF RequestsInit, RequestsInv, PoolsOK, EntriesPosted, BundledOnce

LEMMA RequestsStep == RequestsInv /\ [RequestsNext]_requestVars => RequestsInv'
<1> SUFFICES ASSUME RequestsInv, [RequestsNext]_requestVars
             PROVE  RequestsInv'
  OBVIOUS
<1> USE DEF RequestsInv
<1>1. CASE UNCHANGED <<posts, pending, transactions>>
  BY <1>1 DEF PoolsOK, EntriesPosted, BundledOnce
<1>2. ASSUME NEW r \in Request, Transact(r)
      PROVE  RequestsInv'
  <2> DEFINE new == NewEntry(r)
             pool == pending \union {new}
  <2>1. posts' = posts + 1 /\ posts \in Nat /\ posts < MaxPosts
    BY <1>2, TransactEffect DEF PoolsOK
  <2>2. new \in Entry /\ new.post = posts + 1
    BY <2>1, NewEntryType
  <2>3. /\ new \notin pending
        /\ \A i \in DOMAIN transactions : new \notin transactions[i]
    BY <2>1, <2>2 DEF EntriesPosted
  <2>4. \A e \in Entry : e.post \in Nat
    BY RequestsAssumption DEF Entry
  <2>5. \A e \in pool : e \in Entry /\ e.post <= posts'
    BY <2>1, <2>2, <2>4 DEF PoolsOK, EntriesPosted
  <2>6. \A i \in DOMAIN transactions : \A e \in transactions[i] :
          e.post <= posts'
    BY <2>1, <2>4 DEF PoolsOK, EntriesPosted
  <2> HIDE DEF new
  <2>7. CASE UNCHANGED <<pending, transactions>>
    BY <2>1, <2>5, <2>6, <2>7 DEF PoolsOK, EntriesPosted, BundledOnce
  <2>8. CASE pending' = pool /\ UNCHANGED transactions
    <3>1. PoolsOK' /\ EntriesPosted'
      BY <2>1, <2>5, <2>6, <2>8 DEF PoolsOK, EntriesPosted
    <3>2. BundledOnce'
      BY <2>3, <2>8 DEF BundledOnce
    <3> QED
      BY <3>1, <3>2
  <2>9. CASE pending' = {} /\ transactions' = Append(transactions, pool)
    <3> DEFINE k == Len(transactions) + 1
    <3>1. /\ transactions \in Seq(SUBSET Entry) /\ pool \in SUBSET Entry
          /\ k \in Nat \ {0} /\ DOMAIN transactions = 1 .. k - 1
      BY <2>5 DEF PoolsOK
    <3>2. /\ transactions' \in Seq(SUBSET Entry)
          /\ DOMAIN transactions' = 1 .. k
          /\ transactions'[k] = pool
          /\ \A i \in 1 .. k - 1 : transactions'[i] = transactions[i]
      BY <2>9, <3>1
    <3>3. PoolsOK'
      BY <2>1, <2>9, <3>2 DEF PoolsOK
    <3>4. EntriesPosted'
      BY <2>5, <2>6, <2>9, <3>1, <3>2 DEF EntriesPosted
    <3>5. \A i \in 1 .. k - 1 : transactions[i] \intersect pool = {}
      BY <2>3, <3>1 DEF BundledOnce
    <3>6. \A i, j \in 1 .. k - 1 :
            i # j => transactions[i] \intersect transactions[j] = {}
      BY <3>1 DEF BundledOnce
    <3>7. \A i, j \in 1 .. k :
            i # j => transactions'[i] \intersect transactions'[j] = {}
      <4> HIDE DEF pool
      <4> SUFFICES ASSUME NEW i \in 1 .. k, NEW j \in 1 .. k, i # j
                   PROVE  transactions'[i] \intersect transactions'[j] = {}
        OBVIOUS
      <4>1. CASE i # k /\ j # k
        BY <3>1, <3>2, <3>6, <4>1
      <4>2. CASE i = k
        BY <3>1, <3>2, <3>5, <4>2
      <4>3. CASE j = k
        BY <3>1, <3>2, <3>5, <4>3
      <4> QED
        BY <4>1, <4>2, <4>3
    <3>8. BundledOnce'
      BY <2>9, <3>2, <3>7 DEF BundledOnce
    <3> QED
      BY <3>3, <3>4, <3>8
  <2> QED
    BY <1>2, <2>7, <2>8, <2>9, TransactEffect DEF new
<1> QED
  BY <1>1, <1>2 DEF RequestsNext, AdjustRequestThreshold, requestVars

LEMMA RequestsInvariant == RequestsSpec => []RequestsInv
  BY RequestsInitial, RequestsStep, PTL DEF RequestsSpec

\* No posted request is in two transactions, or in one and still pending.
THEOREM BundledOnceHolds == RequestsSpec => []BundledOnce
<1>1. RequestsInv => BundledOnce
  BY DEF RequestsInv
<1> QED
  BY <1>1, RequestsInvariant, PTL

\* A pending or posted request is afterwards pending or in the transaction
\* being broadcast.
THEOREM NoRequestIsLost == RequestsSpec => NoRequestLost
<1> DEFINE Kept == /\ \A e \in pending \ pending' : e \in Newest'
                   /\ \A r \in Request :
                        Transact(r) =>
                          \E e \in pending' \union Newest' : e.request = r
<1>1. ASSUME RequestsInv, NEW r \in Request, Transact(r)
      PROVE  /\ \A e \in pending \ pending' : e \in Newest'
             /\ \E e \in pending' \union Newest' : e.request = r
  <2> DEFINE pool == pending \union {NewEntry(r)}
  <2>1. NewEntry(r) \in pool /\ NewEntry(r).request = r
    BY DEF NewEntry
  <2>2. CASE IsKnown(r) /\ UNCHANGED pending
    BY <2>2 DEF IsKnown
  <2>3. CASE pending' = pool
    BY <2>1, <2>3
  <2>4. CASE transactions' = Append(transactions, pool)
    <3>1. transactions \in Seq(SUBSET Entry) /\ pool \in SUBSET Entry
      BY <1>1, TransactEffect, NewEntryType DEF RequestsInv, PoolsOK
    <3>2. transactions' # <<>> /\ transactions'[Len(transactions')] = pool
      BY <2>4, <3>1
    <3>3. Newest' = pool
      BY <3>2 DEF Newest
    <3> QED
      BY <2>1, <3>3
  <2> QED
    BY <1>1, <2>2, <2>3, <2>4
       DEF Transact, NewEntry, AllPendingRequests
<1>2. RequestsInv /\ [RequestsNext]_requestVars => [Kept]_requestVars
  BY <1>1 DEF RequestsNext, AdjustRequestThreshold
<1> QED
  BY <1>2, RequestsInvariant, PTL DEF RequestsSpec, NoRequestLost
-----------------------------------------------------------------------------
(***************************************************************************)
(* The threshold and the contents of the pool.                             *)
(***************************************************************************)
LessThan == {p \in Nat \X Nat : p[1] < p[2]}

LEMMA LeastNumber ==
  ASSUME NEW T, T \subseteq Nat, T # {}
  PROVE  \E g \in T : \A h \in T : g <= h
<1>1. IsWellFoundedOn(LessThan, Nat)
  BY NatLessThanWellFounded, Zenon DEF LessThan, OpToRel
<1>2. PICK g \in T : \A h \in T : <<h, g>> \notin LessThan
  BY <1>1, WFMin
<1>3. \A h \in Nat : h < g => <<h, g>> \in LessThan
  BY DEF LessThan
<1>4. ASSUME NEW h \in T
      PROVE  g <= h
  <2>1. g \in Nat /\ h \in Nat
    OBVIOUS
  <2>2. ~ (h < g)
    BY <1>2, <1>3, <2>1, Zenon
  <2> QED
    BY <2>1, <2>2
<1> QED
  BY <1>4, Zenon

\* The timer's choice exists: a finite number of levels lies below the rate.
LEMMA ThresholdIsALevel ==
  ASSUME NEW count \in Nat
  PROVE  ThresholdFor(count) \in Levels \union {1}
<1> DEFINE passed == {l \in Levels : count > l} \union {1}
           gaps == {n \in Nat : \E l \in passed : n = count + 1 - l}
<1> HIDE DEF passed
<1>1. \A l \in passed : l \in Nat /\ l <= count + 1
  BY RequestsAssumption DEF passed
<1>2. count + 1 - 1 \in gaps
  BY DEF passed
<1>3. PICK g \in gaps : \A h \in gaps : g <= h
  BY <1>2, LeastNumber
<1>4. PICK l \in passed : g = count + 1 - l
  OBVIOUS
<1>5. \A k \in passed : k <= l
  BY <1>1, <1>3, <1>4
<1>6. ThresholdFor(count) \in passed
  BY <1>5 DEF ThresholdFor, passed
<1> QED
  BY <1>6 DEF passed

PoolDistinct(pool) == \A d, e \in pool : d.request = e.request => d = e

FiniteBundles == \A i \in DOMAIN transactions : IsFiniteSet(transactions[i])

\* A pool is finite, and holds no two equal requests outside benchmarks.
PoolInv ==
  /\ RequestsTypeOK
  /\ IsFiniteSet(pending)
  /\ FiniteBundles
  /\ ~ Benchmarking => PoolDistinct(pending)
  /\ DistinctRequests

LEMMA PoolInitial == RequestsInit => PoolInv
  BY RequestsAssumption, FS_EmptySet
     DEF RequestsInit, PoolInv, RequestsTypeOK, Thresholds, FiniteBundles,
         PoolDistinct, DistinctRequests

LEMMA PoolStep == PoolInv /\ [RequestsNext]_requestVars => PoolInv'
<1> SUFFICES ASSUME PoolInv, [RequestsNext]_requestVars
             PROVE  PoolInv'
  OBVIOUS
<1> USE DEF PoolInv
<1>1. CASE UNCHANGED requestVars
  BY <1>1 DEF requestVars, RequestsTypeOK, FiniteBundles, PoolDistinct,
       DistinctRequests
<1>2. CASE AdjustRequestThreshold
  <2>1. requestCount \in Nat
    BY RequestsAssumption DEF RequestsTypeOK
  <2>2. RequestsTypeOK'
    BY <1>2, <2>1, ThresholdIsALevel
       DEF AdjustRequestThreshold, RequestsTypeOK, Thresholds
  <2> QED
    BY <1>2, <2>2
       DEF AdjustRequestThreshold, FiniteBundles, PoolDistinct, DistinctRequests
<1>3. ASSUME NEW r \in Request, Transact(r)
      PROVE  PoolInv'
  <2> DEFINE pool == pending \union {NewEntry(r)}
  <2>1. PoolsOK
    BY RequestsAssumption DEF PoolsOK, RequestsTypeOK
  <2>2. /\ posts' \in 0 .. MaxPosts /\ requestCount' \in 0 .. posts'
        /\ UNCHANGED threshold
    BY <1>3, RequestsAssumption DEF Transact, RequestsTypeOK
  <2>3. pool \subseteq Entry /\ IsFiniteSet(pool)
    BY <1>3, <2>1, TransactEffect, NewEntryType, FS_AddElement DEF PoolsOK
  <2>4. ~ Benchmarking /\ ~ IsKnown(r) => PoolDistinct(pool)
    BY DEF IsKnown, PoolDistinct, NewEntry
  <2>5. CASE UNCHANGED <<pending, transactions>>
    BY <2>2, <2>5
       DEF RequestsTypeOK, FiniteBundles, PoolDistinct, DistinctRequests
  <2>6. CASE ~ IsKnown(r) /\ pending' = pool /\ UNCHANGED transactions
    BY <2>2, <2>3, <2>4, <2>6
       DEF RequestsTypeOK, FiniteBundles, PoolDistinct, DistinctRequests
  <2>7. CASE /\ ~ IsKnown(r) /\ pending' = {}
             /\ transactions' = Append(transactions, pool)
    <3>1. /\ transactions' \in Seq(SUBSET Entry)
          /\ \A i \in DOMAIN transactions' :
               \/ /\ i \in DOMAIN transactions
                  /\ transactions'[i] = transactions[i]
               \/ transactions'[i] = pool
      BY <2>1, <2>3, <2>7 DEF PoolsOK
    <3>2. DistinctRequests'
      BY <2>4, <2>7, <3>1 DEF DistinctRequests, PoolDistinct
    <3>3. RequestsTypeOK'
      BY <2>2, <2>7, <3>1 DEF RequestsTypeOK
    <3>4. FiniteBundles'
      BY <2>3, <3>1 DEF FiniteBundles
    <3> QED
      BY <2>7, <3>2, <3>3, <3>4, FS_EmptySet DEF PoolDistinct
  <2> QED
    BY <1>3, <2>5, <2>6, <2>7
       DEF Transact, NewEntry, AllPendingRequests, Cleared
<1> QED
  BY <1>1, <1>2, <1>3 DEF RequestsNext

LEMMA PoolInvariant == RequestsSpec => []PoolInv
  BY PoolInitial, PoolStep, PTL DEF RequestsSpec

\* The pool, the threshold and the transactions have their shape; the timer
\* sets the threshold to one of the levels, or 1.
THEOREM RequestsTypeCorrect == RequestsSpec => []RequestsTypeOK
<1>1. PoolInv => RequestsTypeOK
  BY DEF PoolInv
<1> QED
  BY <1>1, PoolInvariant, PTL

\* Outside benchmarks no transaction holds two equal requests.
THEOREM RequestsAreDistinct == RequestsSpec => []DistinctRequests
<1>1. PoolInv => DistinctRequests
  BY DEF PoolInv
<1> QED
  BY <1>1, PoolInvariant, PTL

-----------------------------------------------------------------------------
\* The bound is on the pool with the request being added: if that is not
\* bundled it is below the threshold of the moment, whatever the bound was.
LEMMA SizeStep ==
  ASSUME PoolInv, NoOversizedTransaction, [RequestsNext]_requestVars
  PROVE  NoOversizedTransaction'
<1> USE DEF PoolInv
<1>1. Thresholds \subseteq Nat \ {0} /\ Cardinality(pending) \in Nat
  BY RequestsAssumption, FS_CardinalityType DEF Thresholds
<1>2. PICK m \in Thresholds :
        /\ Cardinality(pending) < m
        /\ \A i \in DOMAIN transactions : Cardinality(transactions[i]) <= m
  BY DEF NoOversizedTransaction
<1>3. CASE UNCHANGED <<pending, transactions>>
  BY <1>2, <1>3 DEF NoOversizedTransaction
<1>4. ASSUME NEW r \in Request, Transact(r)
      PROVE  NoOversizedTransaction'
  <2> DEFINE pool == pending \union {NewEntry(r)}
  <2>1. Cardinality(pool) \in Nat /\ Cardinality(pool) <= m
    <3>1. \/ Cardinality(pool) = Cardinality(pending)
          \/ Cardinality(pool) = Cardinality(pending) + 1
      BY FS_AddElement
    <3> QED
      BY <1>1, <1>2, <3>1
  <2> HIDE DEF pool
  <2>2. CASE /\ ~ IsThresholdReached(pool)
             /\ pending' = pool /\ UNCHANGED transactions
    <3>1. threshold \in Thresholds /\ Cardinality(pool) < threshold
      BY <1>1, <2>1, <2>2 DEF IsThresholdReached, RequestsTypeOK
    <3>2. CASE Cardinality(pool) < m
      BY <1>2, <2>2, <3>2 DEF NoOversizedTransaction
    <3>3. CASE ~ (Cardinality(pool) < m)
      <4>1. m < threshold
        BY <1>1, <2>1, <3>1, <3>3
      <4>2. \A i \in DOMAIN transactions :
              Cardinality(transactions[i]) <= threshold
        <5> SUFFICES ASSUME NEW i \in DOMAIN transactions
                     PROVE  Cardinality(transactions[i]) <= threshold
          OBVIOUS
        <5>1. /\ Cardinality(transactions[i]) \in Nat
              /\ Cardinality(transactions[i]) <= m
          BY <1>2, FS_CardinalityType DEF FiniteBundles
        <5> QED
          BY <1>1, <3>1, <4>1, <5>1
      <4> QED
        BY <2>2, <3>1, <4>2 DEF NoOversizedTransaction
    <3> QED
      BY <3>2, <3>3
  <2>3. CASE /\ pending' = {}
             /\ transactions' = Append(transactions, pool)
    <3>1. transactions \in Seq(SUBSET Entry)
      BY DEF RequestsTypeOK
    <3>2. \A i \in DOMAIN transactions' :
            \/ i \in DOMAIN transactions /\ transactions'[i] = transactions[i]
            \/ transactions'[i] = pool
      BY <2>3, <3>1
    <3>3. Cardinality(pending') < m
      BY <1>1, <2>3, FS_EmptySet
    <3> QED
      BY <1>2, <2>1, <3>2, <3>3 DEF NoOversizedTransaction
  <2> QED
    BY <1>3, <1>4, <2>2, <2>3
       DEF Transact, NewEntry, AllPendingRequests, Cleared, pool
<1> QED
  BY <1>3, <1>4 DEF RequestsNext, AdjustRequestThreshold, requestVars

\* However the threshold moves, transactions and pool stay within one of the
\* values it may have.
THEOREM TransactionsAreBounded == RequestsSpec => []NoOversizedTransaction
<1>1. RequestsInit => NoOversizedTransaction
  BY RequestsAssumption, FS_EmptySet
     DEF RequestsInit, NoOversizedTransaction, Thresholds
<1>2. /\ PoolInv /\ NoOversizedTransaction /\ [RequestsNext]_requestVars
      => NoOversizedTransaction'
  BY SizeStep
<1> QED
  BY <1>1, <1>2, PoolInvariant, PTL DEF RequestsSpec
=============================================================================
