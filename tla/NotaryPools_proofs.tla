------------------------- MODULE NotaryPools_proofs -------------------------
(***************************************************************************)
(* What a node's pools keep and what they let go.  A transaction stays     *)
(* pooled until it is in the chain; a block whose commits are complete is  *)
(* never lost between the commit handler, the continuation and the drain   *)
(* loop; and the pools that a continuation has emptied stay empty, however *)
(* late a copy of a message arrives.                                       *)
(***************************************************************************)
EXTENDS NotaryVotes_proofs

(***************************************************************************)
(* A step as one node sees it: what it does to the pools of that node.     *)
(***************************************************************************)
OtherPools(n) == <<chain[n], callbacks[n], pendingCommits[n]>>

Pools(n) == <<blockPool[n], prepares[n], prepared[n], commits[n], committed[n],
              OtherPools(n)>>

PoolsBlock(n, b) ==
  /\ b \in Proposals
  /\ b.hash \notin prepared[n]
  /\ \A d \in blockPool[n] : d.hash # b.hash
  /\ blockPool'[n] = blockPool[n] \union {b}
  /\ \A h \in Hash : prepares'[n][h] =
       IF h = b.hash /\ prepares[n][h] = {} THEN {n} ELSE prepares[n][h]
  /\ UNCHANGED <<prepared[n], commits[n], committed[n], OtherPools(n)>>

\* completes: the vote is the last one needed.
CountsPrepare(n, h, v) ==
  LET voters == prepares[n][h] \union {v}
      completes == ThresholdReached(voters)
  IN  /\ prepares[n][h] # {}
      /\ v \notin prepares[n][h]
      /\ h \notin prepared[n]
      /\ \A g \in Hash : prepares'[n][g] = IF g = h THEN voters ELSE prepares[n][g]
      /\ prepared'[n] = IF completes THEN prepared[n] \union {h} ELSE prepared[n]
      /\ \A g \in Hash : commits'[n][g] =
           IF g = h /\ completes /\ commits[n][h] = {} /\ h \notin committed[n]
           THEN {n} ELSE commits[n][g]
      /\ UNCHANGED <<blockPool[n], committed[n], OtherPools(n)>>

AddsBlock(n, b, by) ==
  /\ chain'[n] = IF IsValidBlock(n, b) THEN Append(chain[n], b) ELSE chain[n]
  /\ callbacks'[n] = callbacks[n] \union Continuations(n, b, by)

CountsCommit(n, h, v) ==
  LET voters == commits[n][h] \union {v}
      completes == ThresholdReached(voters)
  IN  /\ commits[n][h] # {}
      /\ v \notin commits[n][h]
      /\ h \notin committed[n]
      /\ \A g \in Hash : commits'[n][g] = IF g = h THEN voters ELSE commits[n][g]
      /\ committed'[n] = IF completes THEN committed[n] \union {h} ELSE committed[n]
      /\ \/ completes /\ \E b \in blockPool[n] :
              b.hash = h /\ AddsBlock(n, b, "commit")
         \/ /\ completes => \A b \in blockPool[n] : b.hash # h
            /\ UNCHANGED <<chain[n], callbacks[n]>>
      /\ UNCHANGED <<blockPool[n], prepares[n], prepared[n], pendingCommits[n]>>

CleansUp(n, c) ==
  /\ c.isAdded
  /\ callbacks'[n] = callbacks[n] \ {c}
  /\ blockPool'[n] = {b \in blockPool[n] : b.hash # c.block.hash}
  /\ \A h \in Hash :
       /\ prepares'[n][h] = IF h = c.block.hash THEN {} ELSE prepares[n][h]
       /\ commits'[n][h] = IF h = c.block.hash THEN {} ELSE commits[n][h]
  /\ \/ UNCHANGED pendingCommits[n]
     \/ pendingCommits'[n] = WithoutKey(pendingCommits[n], c.block.sequenceId)
  /\ UNCHANGED <<prepared[n], committed[n], chain[n]>>

PutsOff(n, c) ==
  /\ ~ c.isAdded
  /\ callbacks'[n] = callbacks[n] \ {c}
  /\ pendingCommits'[n] = WithoutKey(pendingCommits[n], c.block.sequenceId)
       \union {[sequenceId |-> c.block.sequenceId, hash |-> c.block.hash]}
  /\ UNCHANGED <<blockPool[n], prepares[n], prepared[n], commits[n],
                 committed[n], chain[n]>>

Retries(n, b) ==
  /\ b \in blockPool[n]
  /\ \E e \in pendingCommits[n] : e.hash = b.hash
  /\ AddsBlock(n, b, "drain")
  /\ UNCHANGED <<blockPool[n], prepares[n], prepared[n], commits[n],
                 committed[n], pendingCommits[n]>>

StartsAgain(n) ==
  /\ n \in Restartable
  /\ chain'[n] = <<Genesis>>
  /\ blockPool'[n] = {} /\ prepared'[n] = {} /\ committed'[n] = {}
  /\ \A h \in Hash : prepares'[n][h] = {} /\ commits'[n][h] = {}
  /\ pendingCommits'[n] = {} /\ callbacks'[n] = {}

\* Only what a node may forget when its cache entries expire is left open.
Forgets(n) ==
  /\ n \in Expirable
  /\ blockPool'[n] \subseteq blockPool[n]
  /\ pendingCommits'[n] \subseteq pendingCommits[n]
  /\ UNCHANGED <<prepares[n], commits[n], chain[n], callbacks[n]>>

\* The steps that take in no message.
SettlesBlocks(n) ==
  \/ UNCHANGED Pools(n)
  \/ \E c \in callbacks[n] : CleansUp(n, c) \/ PutsOff(n, c)
  \/ \E b \in Block : Retries(n, b)

PoolStep(n) ==
  \/ SettlesBlocks(n)
  \/ \E b \in Block : PoolsBlock(n, b)
  \/ \E h \in Hash, v \in Node : CountsPrepare(n, h, v) \/ CountsCommit(n, h, v)
  \/ Forgets(n)
  \/ StartsAgain(n)

\* A message that is handled: only its receiver takes it in, by its type.
LEMMA ReceiveElsewhere ==
  ASSUME TypeOK, NEW k \in Node, NEW m \in msgs, Receive(k, m),
         NEW n \in Node \ {k}
  PROVE  UNCHANGED Pools(n)
<1>1. m \in Message
  BY DEF TypeOK
<1>2. CASE OnTransaction(k, m)
  BY <1>2 DEF OnTransaction, voteVars, chainVars, Pools, OtherPools
<1>3. CASE OnPrePrepare(k, m)
  <2>1. m.block.hash \in Hash
    BY <1>1, <1>3, MessageFields DEF OnPrePrepare, Block
  <2>2. UNCHANGED <<prepared, commits, committed, OtherPools(n)>>
    BY <1>3 DEF OnPrePrepare, chainVars, OtherPools
  <2> QED
    BY <1>3, <2>1, <2>2 DEF OnPrePrepare, Pools, TypeOK
<1>4. CASE OnPrepare(k, m)
  <2>1. m.blockHash \in Hash
    BY <1>1, <1>4, MessageFields DEF OnPrepare
  <2>2. UNCHANGED <<blockPool, committed, OtherPools(n)>>
    BY <1>4 DEF OnPrepare, chainVars, poolVars, OtherPools
  <2> QED
    BY <1>4, <2>1, <2>2 DEF OnPrepare, Pools, TypeOK
<1>5. CASE OnCommit(k, m)
  <2>1. m.blockHash \in Hash
    BY <1>1, <1>5, MessageFields DEF OnCommit
  <2>2. UNCHANGED <<blockPool, prepares, prepared, pendingCommits>>
    BY <1>5 DEF OnCommit, poolVars
  <2>3. commits'[n] = commits[n] /\ committed'[n] = committed[n]
    BY <1>5, <2>1 DEF OnCommit, TypeOK
  <2>4. chain'[n] = chain[n] /\ callbacks'[n] = callbacks[n]
    BY <1>5 DEF OnCommit, chainVars, AddBlock, TypeOK
  <2> QED
    BY <2>2, <2>3, <2>4 DEF Pools, OtherPools
<1> QED
  BY <1>2, <1>3, <1>4, <1>5 DEF Receive

LEMMA PrePrepareHere ==
  ASSUME TypeOK, NEW n \in Node, NEW m \in msgs, OnPrePrepare(n, m)
  PROVE  m.block \in Block /\ PoolsBlock(n, m.block)
<1>1. m.block \in Block /\ m.block.hash \in Hash /\ m.block \in Proposals
  BY MessageFields DEF TypeOK, OnPrePrepare, Block, Proposals
<1>2. UNCHANGED <<prepared, commits, committed, OtherPools(n)>>
  BY DEF OnPrePrepare, chainVars, OtherPools
<1> QED
  BY <1>1, <1>2 DEF OnPrePrepare, AcceptsPrePrepare, PoolsBlock, TypeOK

LEMMA PrepareHere ==
  ASSUME TypeOK, NEW n \in Node, NEW m \in msgs, OnPrepare(n, m)
  PROVE  /\ m.blockHash \in Hash /\ m.from \in Node
         /\ CountsPrepare(n, m.blockHash, m.from)
<1> DEFINE h == m.blockHash
<1>1. m.type = "prepare" /\ h \in Hash /\ m.from \in Node
  BY MessageFields DEF TypeOK, OnPrepare
<1>2. UNCHANGED <<blockPool, committed, OtherPools(n)>>
  BY DEF OnPrepare, chainVars, poolVars, OtherPools
<1>3. OwnVotes(n, m) # {} <=>
        PrepareCompletes(n, m) /\ commits[n][h] = {} /\ h \notin committed[n]
  BY <1>1 DEF OwnVotes
<1>4. \A g \in Hash : commits'[n][g] =
        IF /\ g = h /\ PrepareCompletes(n, m)
           /\ commits[n][h] = {} /\ h \notin committed[n]
        THEN {n} ELSE commits[n][g]
  BY <1>1, <1>3 DEF OnPrepare, TypeOK
<1>5. \A g \in Hash : prepares'[n][g] =
        IF g = h THEN prepares[n][h] \union {m.from} ELSE prepares[n][g]
  BY <1>1 DEF OnPrepare, TypeOK
<1>6. prepared'[n] = IF PrepareCompletes(n, m) THEN prepared[n] \union {h}
                     ELSE prepared[n]
  BY DEF OnPrepare, TypeOK
<1> QED
  BY <1>1, <1>2, <1>4, <1>5, <1>6
     DEF OnPrepare, AcceptsPrepare, CountsPrepare, PrepareCompletes

LEMMA CommitHere ==
  ASSUME TypeOK, NEW n \in Node, NEW m \in msgs, OnCommit(n, m)
  PROVE  /\ m.blockHash \in Hash /\ m.from \in Node
         /\ CountsCommit(n, m.blockHash, m.from)
<1> DEFINE h == m.blockHash
<1>1. m.type = "commit" /\ h \in Hash /\ m.from \in Node
  BY MessageFields DEF TypeOK, OnCommit
<1>2. UNCHANGED <<blockPool, prepares, prepared, pendingCommits>>
  BY DEF OnCommit, poolVars
<1>3. \A g \in Hash : commits'[n][g] =
        IF g = h THEN commits[n][h] \union {m.from} ELSE commits[n][g]
  BY <1>1 DEF OnCommit, TypeOK
<1>4. committed'[n] = IF CommitCompletes(n, m) THEN committed[n] \union {h}
                      ELSE committed[n]
  BY DEF OnCommit, TypeOK
<1>5. ASSUME NEW b, AddBlock(n, b, "commit")
      PROVE  AddsBlock(n, b, "commit")
  BY <1>5 DEF AddBlock, AddsBlock, TypeOK
<1>6. \/ /\ CommitCompletes(n, m)
         /\ \E b \in blockPool[n] : b.hash = h /\ AddsBlock(n, b, "commit")
      \/ /\ CommitCompletes(n, m) => \A b \in blockPool[n] : b.hash # h
         /\ UNCHANGED <<chain[n], callbacks[n]>>
  BY <1>5 DEF OnCommit, chainVars
<1> QED
  BY <1>1, <1>2, <1>3, <1>4, <1>6
     DEF OnCommit, AcceptsCommit, CountsCommit, CommitCompletes

LEMMA ReceiveHere ==
  ASSUME TypeOK, NEW n \in Node, NEW m \in msgs, Receive(n, m)
  PROVE  \/ m.type = "transaction" /\ UNCHANGED Pools(n)
         \/ /\ m.type = "pre_prepare" /\ m.block \in Block
            /\ PoolsBlock(n, m.block)
         \/ /\ m.type = "prepare" /\ m.blockHash \in Hash /\ m.from \in Node
            /\ CountsPrepare(n, m.blockHash, m.from)
         \/ /\ m.type = "commit" /\ m.blockHash \in Hash /\ m.from \in Node
            /\ CountsCommit(n, m.blockHash, m.from)
<1>1. CASE OnTransaction(n, m)
  BY <1>1 DEF OnTransaction, voteVars, chainVars, Pools, OtherPools
<1>2. CASE OnPrePrepare(n, m)
  BY <1>2, PrePrepareHere DEF OnPrePrepare
<1>3. CASE OnPrepare(n, m)
  BY <1>3, PrepareHere DEF OnPrepare
<1>4. CASE OnCommit(n, m)
  BY <1>4, CommitHere DEF OnCommit
<1> QED
  BY <1>1, <1>2, <1>3, <1>4 DEF Receive

LEMMA ReceiveIsPoolStep ==
  ASSUME TypeOK, NEW k \in Node, NEW m \in msgs, Receive(k, m), NEW n \in Node
  PROVE  PoolStep(n)
<1>1. CASE n = k
  BY <1>1, ReceiveHere DEF PoolStep, SettlesBlocks
<1>2. CASE n # k
  BY <1>2, ReceiveElsewhere DEF PoolStep, SettlesBlocks
<1> QED
  BY <1>1, <1>2

LEMMA ContinueSettles ==
  ASSUME TypeOK, NEW k \in Node, NEW c \in callbacks[k], Continue(k, c),
         NEW n \in Node
  PROVE  SettlesBlocks(n)
<1>1. c.block.hash \in Hash /\ UNCHANGED <<prepared, committed, chain>>
  BY DEF TypeOK, Callback, Block, Continue
<1>2. CASE n = k
  <2>1. callbacks'[n] = callbacks[n] \ {c}
    BY <1>2 DEF Continue, TypeOK
  <2>2. CASE AfterAdd(k, c)
    <3>1. \A h \in Hash :
            /\ prepares'[n][h] = IF h = c.block.hash THEN {} ELSE prepares[n][h]
            /\ commits'[n][h] = IF h = c.block.hash THEN {} ELSE commits[n][h]
      BY <1>1, <1>2, <2>2 DEF AfterAdd, TypeOK
    <3>2. blockPool'[n] = {b \in blockPool[n] : b.hash # c.block.hash}
      BY <1>2, <2>2 DEF AfterAdd, TypeOK
    <3>3. \/ UNCHANGED pendingCommits[n]
          \/ pendingCommits'[n] = WithoutKey(pendingCommits[n], c.block.sequenceId)
      BY <1>2, <2>2 DEF AfterAdd, TypeOK
    <3>4. CleansUp(n, c)
      BY <1>1, <2>1, <2>2, <3>1, <3>2, <3>3 DEF AfterAdd, CleansUp
    <3> QED
      BY <1>2, <3>4 DEF SettlesBlocks
  <2>3. CASE AfterRefusal(k, c)
    <3>1. PutsOff(n, c)
      BY <1>1, <1>2, <2>1, <2>3 DEF AfterRefusal, PutsOff, poolVars, TypeOK
    <3> QED
      BY <1>2, <3>1 DEF SettlesBlocks
  <2> QED
    BY <2>2, <2>3 DEF Continue
<1>3. CASE n # k
  <2>1. callbacks'[n] = callbacks[n]
    BY <1>3 DEF Continue, TypeOK
  <2>2. UNCHANGED <<blockPool[n], prepares[n], commits[n], pendingCommits[n]>>
    BY <1>1, <1>3 DEF Continue, AfterAdd, AfterRefusal, poolVars, TypeOK
  <2> QED
    BY <1>1, <2>1, <2>2 DEF SettlesBlocks, Pools, OtherPools
<1> QED
  BY <1>2, <1>3

LEMMA DrainSettles ==
  ASSUME TypeOK, NEW k \in Node, DrainKey(k), NEW n \in Node
  PROVE  SettlesBlocks(n)
<1>1. UNCHANGED <<blockPool, prepares, prepared, commits, committed,
                  pendingCommits>>
  BY DEF DrainKey, poolVars, voteVars
<1>2. CASE UNCHANGED chainVars
  BY <1>1, <1>2 DEF SettlesBlocks, Pools, OtherPools, chainVars
<1>3. ASSUME NEW s, NEW b \in Retryable(k, s), AddBlock(k, b, "drain")
      PROVE  SettlesBlocks(n)
  <2>1. /\ b \in blockPool[k] /\ b \in Block
        /\ \E e \in pendingCommits[k] : e.hash = b.hash
    BY DEF Retryable, TypeOK
  <2>2. CASE n = k
    <3>1. Retries(n, b)
      BY <1>1, <1>3, <2>1, <2>2 DEF AddBlock, AddsBlock, Retries, TypeOK
    <3> QED
      BY <2>1, <3>1 DEF SettlesBlocks
  <2>3. CASE n # k
    <3>1. chain'[n] = chain[n] /\ callbacks'[n] = callbacks[n]
      BY <1>3, <2>3 DEF AddBlock, TypeOK
    <3> QED
      BY <1>1, <3>1 DEF SettlesBlocks, Pools, OtherPools
  <2> QED
    BY <2>2, <2>3
<1> QED
  BY <1>2, <1>3 DEF DrainKey

LEMMA ExpireIsPoolStep ==
  ASSUME TypeOK, NEW k \in Expirable, Expire(k), NEW n \in Node
  PROVE  PoolStep(n)
<1>1. UNCHANGED <<prepares, commits, chain, callbacks>> /\ k \in Node
  BY NodeAssumption DEF Expire, chainVars
<1>2. CASE n = k
  <2>1. blockPool'[n] \subseteq blockPool[n]
    BY <1>2 DEF Expire, TypeOK
  <2>2. pendingCommits'[n] \subseteq pendingCommits[n]
    BY <1>2 DEF Expire, TypeOK
  <2> QED
    BY <1>1, <1>2, <2>1, <2>2 DEF Forgets, PoolStep, SettlesBlocks
<1>3. CASE n # k
  <2>1. blockPool'[n] = blockPool[n] /\ pendingCommits'[n] = pendingCommits[n]
    BY <1>1, <1>3 DEF Expire, TypeOK
  <2>2. prepared'[n] = prepared[n] /\ committed'[n] = committed[n]
    BY <1>1, <1>3 DEF Expire, TypeOK
  <2> QED
    BY <1>1, <2>1, <2>2 DEF PoolStep, SettlesBlocks, Pools, OtherPools
<1> QED
  BY <1>2, <1>3

LEMMA RestartIsPoolStep ==
  ASSUME TypeOK, NEW k \in Restartable, Restart(k), NEW n \in Node
  PROVE  PoolStep(n)
<1>1. CASE n = k
  <2>1. StartsAgain(n)
    BY <1>1, NodeAssumption DEF Restart, StartsAgain, TypeOK
  <2> QED
    BY <2>1 DEF PoolStep, SettlesBlocks
<1>2. CASE n # k
  <2>1. UNCHANGED Pools(n)
    BY <1>2 DEF Restart, Pools, OtherPools, TypeOK
  <2> QED
    BY <2>1 DEF PoolStep, SettlesBlocks
<1> QED
  BY <1>1, <1>2

\* Whatever happens anywhere is one of these steps at n.
LEMMA EveryStepIsPoolStep ==
  ASSUME TypeOK, [Next]_vars, NEW n \in Node
  PROVE  PoolStep(n)
<1>1. CASE UNCHANGED <<poolVars, voteVars, chainVars, pendingCommits>>
  BY <1>1
     DEF poolVars, voteVars, chainVars, PoolStep, SettlesBlocks, Pools,
         OtherPools
<1>2. ASSUME NEW k \in Node,
             \/ \E t \in Tx : Submit(k, t)
             \/ StartDrain(k) \/ EndTick(k)
             \/ \E data \in PendingTransactions(k) : Propose(k, data)
      PROVE  PoolStep(n)
  BY <1>1, <1>2 DEF Submit, StartDrain, EndTick, Propose
<1>3. CASE UNCHANGED vars
  BY <1>1, <1>3 DEF vars
<1> QED
  BY <1>2, <1>3, ReceiveIsPoolStep, ContinueSettles, DrainSettles,
     ExpireIsPoolStep, RestartIsPoolStep, NodeAssumption
     DEF Next, PoolStep, SettlesBlocks

\* The chain of n keeps its blocks, and what is new in it is the block b; the
\* continuations are kept too, and a new one is of b and says what happened.
LEMMA AddsBlockResult ==
  ASSUME TypeOK, NEW n \in Node, NEW b \in Block, NEW by, AddsBlock(n, b, by)
  PROVE  /\ \A i \in DOMAIN chain[n] :
              i \in DOMAIN chain'[n] /\ chain'[n][i] = chain[n][i]
         /\ \A i \in DOMAIN chain'[n] :
              \/ i \in DOMAIN chain[n] /\ chain'[n][i] = chain[n][i]
              \/ /\ chain'[n][i] = b
                 /\ b.data \intersect BadTx = {} =>
                      \E c \in callbacks'[n] : c.block = b
         /\ callbacks[n] \subseteq callbacks'[n]
         /\ \A c, d \in callbacks'[n] \ callbacks[n] : c = d
         /\ \A c \in callbacks'[n] \ callbacks[n] :
              /\ c.block = b
              /\ c.isAdded => \E i \in DOMAIN chain'[n] : chain'[n][i] = b
              /\ ~ c.isAdded => chain'[n] = chain[n] /\ by = "commit"
         /\ by = "commit" =>
              \/ \E i \in DOMAIN chain'[n] : chain'[n][i] = b
              \/ \E c \in callbacks'[n] : c.block = b
<1>1. chain[n] \in Seq(Block) /\ Len(chain[n]) \in Nat
  BY DEF TypeOK
<1>2. callbacks[n] \subseteq callbacks'[n]
  BY DEF AddsBlock
<1>3. \A c \in Continuations(n, b, by) : c.block = b /\ c.isAdded \in Outcomes(n, b, by)
  BY DEF Continuations
<1>4. ASSUME NEW added \in Outcomes(n, b, by)
      PROVE  \E c \in callbacks'[n] : c.block = b
  <2>1. [block |-> b, isAdded |-> added, by |-> by] \in callbacks'[n]
    BY DEF AddsBlock, Continuations
  <2> QED
    BY <2>1
<1>5. callbacks'[n] \ callbacks[n] \subseteq Continuations(n, b, by)
  BY DEF AddsBlock
<1>6. CASE IsValidBlock(n, b)
  <2>1. chain'[n] = Append(chain[n], b)
    BY <1>6 DEF AddsBlock
  <2>2. /\ DOMAIN chain'[n] = 1 .. Len(chain[n]) + 1
        /\ DOMAIN chain[n] = 1 .. Len(chain[n])
        /\ \A i \in 1 .. Len(chain[n]) : chain'[n][i] = chain[n][i]
        /\ chain'[n][Len(chain[n]) + 1] = b
    BY <1>1, <2>1
  <2>3. Outcomes(n, b, by) = IF b.data \intersect BadTx = {} THEN {TRUE} ELSE {}
    BY <1>6 DEF Outcomes
  <2>4. \A i \in 1 .. Len(chain[n]) + 1 :
          i \in 1 .. Len(chain[n]) \/ i = Len(chain[n]) + 1
    BY <1>1
  <2>5. \A c \in callbacks'[n] \ callbacks[n] : c.block = b /\ c.isAdded
    BY <1>3, <1>5, <2>3
  <2>10. \A c, d \in callbacks'[n] \ callbacks[n] : c = d
    BY <1>5, <2>3 DEF Continuations
  <2>6. \E i \in DOMAIN chain'[n] : chain'[n][i] = b
    BY <1>1, <2>2
  <2>7. b.data \intersect BadTx = {} => \E c \in callbacks'[n] : c.block = b
    BY <1>4, <2>3
  <2>8. \A i \in DOMAIN chain[n] :
          i \in DOMAIN chain'[n] /\ chain'[n][i] = chain[n][i]
    BY <1>1, <2>2
  <2>9. \A i \in DOMAIN chain'[n] :
          \/ i \in DOMAIN chain[n] /\ chain'[n][i] = chain[n][i]
          \/ chain'[n][i] = b
    BY <2>2, <2>4
  <2> QED
    BY <1>2, <1>6, <2>5, <2>6, <2>7, <2>8, <2>9, <2>10
<1>7. CASE ~ IsValidBlock(n, b)
  <2>1. chain'[n] = chain[n]
    BY <1>7 DEF AddsBlock
  <2>2. Outcomes(n, b, by) = IF by = "commit" THEN {FALSE} ELSE {}
    BY <1>7 DEF Outcomes
  <2>3. \A c \in callbacks'[n] \ callbacks[n] :
          c.block = b /\ ~ c.isAdded /\ by = "commit"
    BY <1>3, <1>5, <2>2
  <2>4. by = "commit" => \E c \in callbacks'[n] : c.block = b
    <3>1. by = "commit" => FALSE \in Outcomes(n, b, by)
      BY <2>2
    <3> QED
      BY <1>4, <3>1
  <2>5. \A c, d \in callbacks'[n] \ callbacks[n] : c = d
    BY <1>5, <2>2 DEF Continuations
  <2> QED
    BY <1>2, <2>1, <2>3, <2>4, <2>5
<1> QED
  BY <1>6, <1>7
-----------------------------------------------------------------------------
(***************************************************************************)
(* A transaction leaves a pool by a continuation, and the block of that    *)
(* continuation is in the chain.                                           *)
(***************************************************************************)
AddedInChain ==
  \A n \in Node : \A c \in callbacks[n] :
    c.isAdded => \E i \in DOMAIN chain[n] : chain[n][i] = c.block

LEMMA AddedInChainNext ==
  TypeInv /\ AddedInChain /\ [Next]_vars => AddedInChain'
<1> SUFFICES ASSUME TypeInv, AddedInChain, [Next]_vars,
                    NEW n \in Node, NEW c \in callbacks'[n], c.isAdded
             PROVE  \E i \in DOMAIN chain'[n] : chain'[n][i] = c.block
  BY DEF AddedInChain
<1>1. TypeOK /\ PoolStep(n)
  BY EveryStepIsPoolStep DEF TypeInv
<1>2. CASE callbacks'[n] \subseteq callbacks[n] /\ chain'[n] = chain[n]
  BY <1>2 DEF AddedInChain
<1>3. ASSUME NEW b \in Block, NEW by, AddsBlock(n, b, by)
      PROVE  \E i \in DOMAIN chain'[n] : chain'[n][i] = c.block
  <2>1. CASE c \in callbacks[n]
    <3>1. PICK i \in DOMAIN chain[n] : chain[n][i] = c.block
      BY <2>1 DEF AddedInChain
    <3> QED
      BY <1>1, <1>3, <3>1, AddsBlockResult
  <2>2. CASE c \notin callbacks[n]
    BY <1>1, <1>3, <2>2, AddsBlockResult
  <2> QED
    BY <2>1, <2>2
<1>4. CASE StartsAgain(n)
  BY <1>4 DEF StartsAgain
<1>5. ASSUME NEW h \in Hash, NEW v \in Node, CountsCommit(n, h, v)
      PROVE  \E i \in DOMAIN chain'[n] : chain'[n][i] = c.block
  <2>1. blockPool[n] \subseteq Block
    BY <1>1 DEF TypeOK
  <2> QED
    BY <1>2, <1>3, <1>5, <2>1 DEF CountsCommit
<1> QED
  BY <1>1, <1>2, <1>3, <1>4, <1>5
     DEF PoolStep, SettlesBlocks, Pools, OtherPools, PoolsBlock,
         CountsPrepare, CleansUp, PutsOff, Retries, Forgets

LEMMA AddedInChainInvariant == Spec => [](TypeInv /\ AddedInChain)
<1>1. Init => TypeInv /\ AddedInChain
  BY TypeInit DEF Init, AddedInChain
<1>2. TypeInv /\ AddedInChain /\ [Next]_vars => (TypeInv /\ AddedInChain)'
  BY TypeNext, AddedInChainNext
<1> QED
  BY <1>1, <1>2, PTL DEF Spec

\* What leaves the transaction pool of n, and by which step.
LEMMA TxPoolStep ==
  ASSUME TypeOK, [Next]_vars, NEW n \in Node, NEW t \in txPool[n] \ txPool'[n]
  PROVE  \/ \E c \in callbacks[n] : c.isAdded /\ t \in c.block.data
         \/ chain'[n] = <<Genesis>>
<1>1. CASE UNCHANGED txPool
  BY <1>1
<1>2. ASSUME NEW k \in Node, NEW m \in msgs, Receive(k, m)
      PROVE  txPool[n] \subseteq txPool'[n]
  BY <1>2 DEF Receive, OnTransaction, OnPrePrepare, OnPrepare, OnCommit,
              poolVars, TypeOK
<1>3. ASSUME NEW k \in Node, NEW c \in callbacks[k], Continue(k, c)
      PROVE  \E d \in callbacks[n] : d.isAdded /\ t \in d.block.data
  <2>1. CASE AfterAdd(k, c)
    <3>1. txPool' = [txPool EXCEPT ![k] = @ \ c.block.data]
      BY <2>1 DEF AfterAdd, WithoutIncluded
    <3>2. n = k /\ t \in c.block.data
      BY <3>1 DEF TypeOK
    <3> QED
      BY <1>3, <2>1, <3>2 DEF AfterAdd
  <2>2. CASE AfterRefusal(k, c)
    BY <2>2 DEF AfterRefusal, poolVars
  <2> QED
    BY <1>3, <2>1, <2>2 DEF Continue
<1>4. ASSUME NEW k \in Node, Restart(k)
      PROVE  chain'[n] = <<Genesis>>
  BY <1>4 DEF Restart, TypeOK
<1>5. ASSUME NEW k \in Node,
             \/ \E u \in Tx : Submit(k, u)
             \/ StartDrain(k) \/ DrainKey(k) \/ EndTick(k)
             \/ \E data \in PendingTransactions(k) : Propose(k, data)
             \/ Expire(k)
      PROVE  UNCHANGED txPool
  BY <1>5 DEF Submit, StartDrain, DrainKey, EndTick, Propose, Expire, poolVars
<1>6. CASE UNCHANGED vars
  BY <1>1, <1>6 DEF vars, poolVars
<1> QED
  BY <1>1, <1>2, <1>3, <1>4, <1>5, <1>6, NodeAssumption DEF Next

\* No transaction leaves a pool before it is in the chain, whichever blocks
\* are refused and retried and whichever caches expire: pools are emptied by
\* continuations, and the block of such a continuation has been added.
THEOREM TxIsKept == Spec => TxKeptUntilIncluded
<1>1. ASSUME TypeInv, AddedInChain, AddedInChain', [Next]_vars
      PROVE  [\A n \in Node : \A t \in txPool[n] \ txPool'[n] :
                \/ \E i \in DOMAIN chain[n] : t \in chain[n][i].data
                \/ chain'[n] = <<Genesis>>]_vars
  <2> SUFFICES ASSUME NEW n \in Node, NEW t \in txPool[n] \ txPool'[n]
               PROVE  \/ \E i \in DOMAIN chain[n] : t \in chain[n][i].data
                      \/ chain'[n] = <<Genesis>>
    OBVIOUS
  <2>1. CASE chain'[n] = <<Genesis>>
    BY <2>1
  <2>2. ASSUME NEW c \in callbacks[n], c.isAdded, t \in c.block.data
        PROVE  \E i \in DOMAIN chain[n] : t \in chain[n][i].data
    BY <1>1, <2>2 DEF AddedInChain
  <2> QED
    BY <1>1, <2>1, <2>2, TxPoolStep DEF TypeInv
<1> QED
  BY <1>1, AddedInChainInvariant, PTL DEF Spec, TxKeptUntilIncluded
-----------------------------------------------------------------------------
(***************************************************************************)
(* A block whose commits are complete.  When a vote completes them, the    *)
(* pool is open, so the block is pooled, and goes to the chain or, refused,*)
(* to a continuation that puts it off.  What is put off is a proposal; no  *)
(* two proposals have one sequence id, so replacing or deleting the entry  *)
(* of a sequence id forgets no other block.                                *)
(***************************************************************************)
Steady == Node \ Expirable

OpenHasBlock ==
  \A n \in Steady : \A h \in Hash :
    prepares[n][h] # {} \/ commits[n][h] # {} =>
      \E b \in blockPool[n] : b.hash = h

CallbacksAreProposed ==
  \A n \in Node : \A c \in callbacks[n] : c.block \in Proposals

PendingAreProposed ==
  \A n \in Node : \A e \in pendingCommits[n] : \E b \in Proposals :
    b.sequenceId = e.sequenceId /\ b.hash = e.hash

KeptInv ==
  /\ AgreementInv
  /\ AddedInChain
  /\ CallbacksAreProposed
  /\ PendingAreProposed
  /\ OpenHasBlock
  /\ NoCommitLost

LEMMA OpenHasBlockNext ==
  TypeOK /\ OpenHasBlock /\ [Next]_vars => OpenHasBlock'
<1> SUFFICES ASSUME TypeOK, OpenHasBlock, [Next]_vars,
                    NEW n \in Steady, NEW h \in Hash,
                    prepares'[n][h] # {} \/ commits'[n][h] # {}
             PROVE  \E b \in blockPool'[n] : b.hash = h
  BY DEF OpenHasBlock
<1>1. n \in Node /\ n \notin Expirable /\ PoolStep(n)
  BY EveryStepIsPoolStep DEF Steady
<1>2. CASE /\ prepares[n][h] # {} \/ commits[n][h] # {}
           /\ blockPool[n] \subseteq blockPool'[n]
  BY <1>2 DEF OpenHasBlock
<1>3. ASSUME NEW b \in Block, PoolsBlock(n, b)
      PROVE  \E d \in blockPool'[n] : d.hash = h
  <2>1. CASE h = b.hash
    BY <1>3, <2>1 DEF PoolsBlock
  <2>2. CASE h # b.hash
    <3>1. prepares'[n][h] = prepares[n][h] /\ commits'[n][h] = commits[n][h]
      BY <1>3, <2>2 DEF PoolsBlock
    <3> QED
      BY <1>2, <1>3, <3>1 DEF PoolsBlock
  <2> QED
    BY <2>1, <2>2
<1>4. ASSUME NEW g \in Hash, NEW v \in Node,
             CountsPrepare(n, g, v) \/ CountsCommit(n, g, v)
      PROVE  \E d \in blockPool'[n] : d.hash = h
  <2>1. blockPool'[n] = blockPool[n]
    BY <1>4 DEF CountsPrepare, CountsCommit
  <2>2. prepares[n][h] # {} \/ commits[n][h] # {}
    <3>1. CASE CountsPrepare(n, g, v)
      BY <3>1 DEF CountsPrepare
    <3>2. CASE CountsCommit(n, g, v)
      BY <3>2 DEF CountsCommit
    <3> QED
      BY <1>4, <3>1, <3>2
  <2> QED
    BY <1>2, <2>1, <2>2
<1>5. ASSUME NEW c \in callbacks[n], CleansUp(n, c)
      PROVE  \E d \in blockPool'[n] : d.hash = h
  <2>1. h # c.block.hash
    BY <1>5 DEF CleansUp
  <2>2. prepares[n][h] # {} \/ commits[n][h] # {}
    BY <1>5, <2>1 DEF CleansUp
  <2>3. PICK b \in blockPool[n] : b.hash = h
    BY <2>2 DEF OpenHasBlock
  <2>4. b \in blockPool'[n]
    BY <1>5, <2>1, <2>3 DEF CleansUp
  <2> QED
    BY <2>3, <2>4
<1>6. ASSUME \/ UNCHANGED Pools(n)
             \/ \E c \in callbacks[n] : PutsOff(n, c)
             \/ \E b \in Block : Retries(n, b)
      PROVE  UNCHANGED <<blockPool[n], prepares[n], commits[n]>>
  BY <1>6 DEF Pools, PutsOff, Retries
<1> QED
  BY <1>1, <1>2, <1>3, <1>4, <1>5, <1>6
     DEF PoolStep, SettlesBlocks, Forgets, StartsAgain

\* What becomes of continuations and pending commits: nothing in either is
\* new but what was pooled, or was in a continuation.
LEMMA WhatIsNew ==
  ASSUME TypeOK, [Next]_vars, NEW n \in Node
  PROVE  /\ \A c \in callbacks'[n] : c \in callbacks[n] \/ c.block \in blockPool[n]
         /\ \A e \in pendingCommits'[n] :
              \/ e \in pendingCommits[n]
              \/ \E c \in callbacks[n] : /\ c.block.sequenceId = e.sequenceId
                                        /\ c.block.hash = e.hash
<1>1. PoolStep(n) /\ blockPool[n] \subseteq Block
  BY EveryStepIsPoolStep DEF TypeOK
<1>2. ASSUME NEW b \in blockPool[n], NEW by, AddsBlock(n, b, by)
      PROVE  \A c \in callbacks'[n] : c \in callbacks[n] \/ c.block \in blockPool[n]
  BY <1>1, <1>2, AddsBlockResult
<1>3. \A c \in callbacks'[n] : c \in callbacks[n] \/ c.block \in blockPool[n]
  BY <1>1, <1>2
     DEF PoolStep, SettlesBlocks, Pools, OtherPools, PoolsBlock,
         CountsPrepare, CountsCommit, CleansUp, PutsOff, Retries, Forgets,
         StartsAgain
<1>4. CASE pendingCommits'[n] \subseteq pendingCommits[n]
  BY <1>3, <1>4
<1>5. ASSUME NEW c \in callbacks[n], PutsOff(n, c), NEW e \in pendingCommits'[n]
      PROVE  \/ e \in pendingCommits[n]
             \/ c.block.sequenceId = e.sequenceId /\ c.block.hash = e.hash
  BY <1>5 DEF PutsOff, WithoutKey
<1> QED
  BY <1>1, <1>3, <1>4, <1>5
     DEF PoolStep, SettlesBlocks, Pools, OtherPools, PoolsBlock,
         CountsPrepare, CountsCommit, CleansUp, Retries, Forgets,
         StartsAgain, WithoutKey

LEMMA ProposalsStay == [Next]_vars => Proposals \subseteq Proposals'
  BY MessagesStay DEF Proposals

LEMMA NamedBlocksNext ==
  ASSUME AgreementInv, CallbacksAreProposed, PendingAreProposed, [Next]_vars
  PROVE  CallbacksAreProposed' /\ PendingAreProposed'
<1>1. TypeOK /\ PooledAreProposed /\ Proposals \subseteq Proposals'
  BY ProposalsStay DEF AgreementInv, TypeInv
<1>2. ASSUME NEW n \in Node, NEW c \in callbacks'[n]
      PROVE  c.block \in Proposals'
  BY <1>1, WhatIsNew DEF CallbacksAreProposed, PooledAreProposed
<1>3. ASSUME NEW n \in Node, NEW e \in pendingCommits'[n]
      PROVE  \E b \in Proposals' :
               b.sequenceId = e.sequenceId /\ b.hash = e.hash
  BY <1>1, WhatIsNew DEF CallbacksAreProposed, PendingAreProposed
<1> QED
  BY <1>2, <1>3 DEF CallbacksAreProposed, PendingAreProposed

\* The entry of the same sequence id as a proposal is that proposal's.
LEMMA SameKeySameHash ==
  ASSUME AgreementInv, PendingAreProposed, NEW n \in Node,
         NEW e \in pendingCommits[n], NEW b \in Proposals,
         e \notin WithoutKey(pendingCommits[n], b.sequenceId)
  PROVE  e.hash = b.hash
<1>1. e.sequenceId = b.sequenceId
  BY DEF WithoutKey
<1> QED
  BY <1>1 DEF PendingAreProposed, AgreementInv, ProposalInv

Held(n, h) ==
  \/ \E i \in DOMAIN chain[n] : chain[n][i].hash = h
  \/ \E e \in pendingCommits[n] : e.hash = h
  \/ \E c \in callbacks[n] : c.block.hash = h

LEMMA HeldStays ==
  ASSUME KeptInv, [Next]_vars, NEW n \in Steady, NEW h, Held(n, h)
  PROVE  Held(n, h)' \/ StartsAgain(n)
<1> USE DEF Held
<1>1. /\ n \in Node /\ n \notin Expirable /\ TypeOK /\ PoolStep(n)
      /\ blockPool[n] \subseteq Block
  BY EveryStepIsPoolStep DEF Steady, KeptInv, AgreementInv, TypeInv, TypeOK
<1>2. CASE UNCHANGED OtherPools(n)
  BY <1>2 DEF OtherPools
<1>3. ASSUME NEW b \in Block, NEW by, AddsBlock(n, b, by),
             UNCHANGED pendingCommits[n]
      PROVE  Held(n, h)'
  BY <1>1, <1>3, AddsBlockResult
<1>4. ASSUME NEW c \in callbacks[n], CleansUp(n, c)
      PROVE  Held(n, h)'
  <2>1. /\ UNCHANGED chain[n] /\ c.isAdded
        /\ callbacks'[n] = callbacks[n] \ {c}
    BY <1>4 DEF CleansUp
  <2>2. c.block \in Proposals /\ \E i \in DOMAIN chain[n] : chain[n][i] = c.block
    BY <1>1, <2>1 DEF KeptInv, AddedInChain, CallbacksAreProposed
  <2>3. CASE h = c.block.hash
    BY <2>1, <2>2, <2>3
  <2>4. CASE h # c.block.hash
    <3>1. \A e \in pendingCommits[n] : e.hash = h => e \in pendingCommits'[n]
      BY <1>1, <1>4, <2>2, <2>4, SameKeySameHash DEF KeptInv, CleansUp
    <3> QED
      BY <2>1, <2>4, <3>1
  <2> QED
    BY <2>3, <2>4
<1>5. ASSUME NEW c \in callbacks[n], PutsOff(n, c)
      PROVE  Held(n, h)'
  <2> DEFINE f == [sequenceId |-> c.block.sequenceId, hash |-> c.block.hash]
  <2>1. /\ UNCHANGED chain[n] /\ callbacks'[n] = callbacks[n] \ {c}
        /\ pendingCommits'[n] =
             WithoutKey(pendingCommits[n], c.block.sequenceId) \union {f}
    BY <1>5 DEF PutsOff
  <2>2. f \in pendingCommits'[n] /\ f.hash = c.block.hash
    BY <2>1
  <2>3. CASE h = c.block.hash
    BY <2>2, <2>3
  <2>4. CASE h # c.block.hash
    <3>1. c.block \in Proposals
      BY <1>1 DEF KeptInv, CallbacksAreProposed
    <3>2. \A e \in pendingCommits[n] : e.hash = h => e \in pendingCommits'[n]
      BY <1>1, <2>1, <2>4, <3>1, SameKeySameHash DEF KeptInv
    <3> QED
      BY <2>1, <2>4, <3>2
  <2> QED
    BY <2>3, <2>4
<1>6. ASSUME NEW g \in Hash, NEW v \in Node, CountsCommit(n, g, v)
      PROVE  Held(n, h)'
  <2>1. UNCHANGED pendingCommits[n]
    BY <1>6 DEF CountsCommit
  <2>2. CASE UNCHANGED <<chain[n], callbacks[n]>>
    BY <2>1, <2>2
  <2>3. CASE \E b \in blockPool[n] : AddsBlock(n, b, "commit")
    BY <1>1, <1>3, <2>1, <2>3
  <2> QED
    BY <1>6, <2>2, <2>3 DEF CountsCommit
<1>7. ASSUME NEW b \in Block, Retries(n, b)
      PROVE  Held(n, h)'
  BY <1>3, <1>7 DEF Retries
<1>8. ASSUME \/ UNCHANGED Pools(n)
             \/ \E b \in Block : PoolsBlock(n, b)
             \/ \E g \in Hash, v \in Node : CountsPrepare(n, g, v)
      PROVE  UNCHANGED OtherPools(n)
  BY <1>8 DEF Pools, PoolsBlock, CountsPrepare
<1> QED
  BY <1>1, <1>2, <1>4, <1>5, <1>6, <1>7, <1>8
     DEF PoolStep, SettlesBlocks, Forgets

\* A block that is new among the complete ones is held.
LEMMA CompletedIsHeld ==
  ASSUME KeptInv, [Next]_vars, NEW n \in Steady,
         NEW h \in committed'[n] \ committed[n]
  PROVE  Held(n, h)'
<1>1. /\ n \in Node /\ n \notin Expirable /\ TypeOK /\ PoolStep(n)
      /\ blockPool[n] \subseteq Block
  BY EveryStepIsPoolStep DEF Steady, KeptInv, AgreementInv, TypeInv, TypeOK
<1>2. PICK g \in Hash, v \in Node : CountsCommit(n, g, v)
  BY <1>1
     DEF PoolStep, SettlesBlocks, Pools, OtherPools, PoolsBlock,
         CountsPrepare, CleansUp, PutsOff, Retries, Forgets, StartsAgain
<1>3. g = h /\ commits[n][h] # {} /\ ThresholdReached(commits[n][h] \union {v})
  BY <1>2 DEF CountsCommit
<1>4. \E b \in blockPool[n] : b.hash = h
  BY <1>3, <1>2 DEF KeptInv, OpenHasBlock
<1>5. PICK b \in blockPool[n] : b.hash = h /\ AddsBlock(n, b, "commit")
  BY <1>2, <1>3, <1>4 DEF CountsCommit
<1>6. \/ \E i \in DOMAIN chain'[n] : chain'[n][i] = b
      \/ \E c \in callbacks'[n] : c.block = b
  BY <1>1, <1>5, AddsBlockResult
<1> QED
  BY <1>5, <1>6 DEF Held

LEMMA KeptInit == Init => KeptInv
  BY AgreementInit DEF Init, KeptInv, AddedInChain, CallbacksAreProposed,
     PendingAreProposed, OpenHasBlock, NoCommitLost, Steady

LEMMA KeptNext ==
  ASSUME Proposer \notin Restartable
  PROVE  KeptInv /\ [Next]_vars => KeptInv'
<1> SUFFICES ASSUME KeptInv, [Next]_vars PROVE KeptInv'
  OBVIOUS
<1>1. AgreementInv /\ TypeInv /\ TypeOK
  BY DEF KeptInv, AgreementInv, TypeInv
<1>2. AgreementInv'
  BY <1>1, AgreementNext
<1>3. AddedInChain' /\ CallbacksAreProposed' /\ PendingAreProposed' /\ OpenHasBlock'
  BY <1>1, AddedInChainNext, NamedBlocksNext, OpenHasBlockNext DEF KeptInv
<1>4. NoCommitLost'
  <2> SUFFICES ASSUME NEW n \in Steady, NEW h \in committed'[n]
               PROVE  Held(n, h)'
    BY DEF NoCommitLost, Held, Steady
  <2>1. CASE h \notin committed[n]
    BY <2>1, CompletedIsHeld
  <2>2. CASE h \in committed[n]
    <3>1. Held(n, h)
      BY <2>2 DEF KeptInv, NoCommitLost, Held, Steady
    <3>2. ~ StartsAgain(n)
      BY DEF StartsAgain
    <3> QED
      BY <3>1, <3>2, HeldStays
  <2> QED
    BY <2>1, <2>2
<1> QED
  BY <1>2, <1>3, <1>4 DEF KeptInv

\* On a node whose cache entries do not expire, a block that has its commits
\* is in the chain, put off, or on its way from the one to the other, in
\* whatever order the commits of different blocks complete.
THEOREM NoCommitIsLost ==
  ASSUME Proposer \notin Restartable
  PROVE  Spec => []NoCommitLost
<1>1. KeptInv => NoCommitLost
  BY DEF KeptInv
<1> QED
  BY <1>1, KeptInit, KeptNext, PTL DEF Spec
-----------------------------------------------------------------------------
(***************************************************************************)
(* Pools that were emptied stay empty.  A block that is added, put off or  *)
(* in a continuation has completed its commits, hence its prepares, so     *)
(* late copies of it are not taken in; and a block that is in a            *)
(* continuation as refused is nowhere else, so the continuation of a block *)
(* in the chain is always one that cleans up.                              *)
(***************************************************************************)
CommitAfterPrepared ==
  \A n \in Steady : \A h \in Hash :
    commits[n][h] # {} \/ h \in committed[n] => h \in prepared[n]

Above(n) == DOMAIN chain[n] \ {1}

Completed(n) ==
  /\ \A c \in callbacks[n] : c.block.hash \in committed[n]
  /\ \A e \in pendingCommits[n] : e.hash \in committed[n]
  /\ \A i \in Above(n) : chain[n][i].hash \in committed[n]

CompletedFirst == \A n \in Steady : Completed(n)

Nowhere(n, c) ==
  /\ \A d \in callbacks[n] : d.block.hash = c.block.hash => d = c
  /\ \A e \in pendingCommits[n] : e.hash # c.block.hash
  /\ \A i \in Above(n) : chain[n][i].hash # c.block.hash

RefusedIsNowhere ==
  \A n \in Steady : \A c \in callbacks[n] : ~ c.isAdded => Nowhere(n, c)

ZombieInv ==
  /\ TypeInv
  /\ CommitAfterPrepared
  /\ CompletedFirst
  /\ RefusedIsNowhere
  /\ NoZombieVotes

LEMMA CommitAfterPreparedNext ==
  TypeOK /\ CommitAfterPrepared /\ [Next]_vars => CommitAfterPrepared'
<1> SUFFICES ASSUME TypeOK, CommitAfterPrepared, [Next]_vars,
                    NEW n \in Steady, NEW h \in Hash,
                    commits'[n][h] # {} \/ h \in committed'[n]
             PROVE  h \in prepared'[n]
  BY DEF CommitAfterPrepared
<1>1. n \in Node /\ n \notin Expirable /\ PoolStep(n)
  BY EveryStepIsPoolStep DEF Steady
<1>2. CASE /\ prepared[n] \subseteq prepared'[n]
           /\ commits[n][h] # {} \/ h \in committed[n]
  BY <1>2 DEF CommitAfterPrepared
<1>3. ASSUME NEW g \in Hash, NEW v \in Node, CountsPrepare(n, g, v)
      PROVE  h \in prepared'[n]
  BY <1>2, <1>3 DEF CountsPrepare
<1>4. ASSUME NEW g \in Hash, NEW v \in Node, CountsCommit(n, g, v)
      PROVE  h \in prepared'[n]
  <2>1. commits[n][h] # {} \/ h \in committed[n]
    BY <1>4 DEF CountsCommit
  <2>2. prepared'[n] = prepared[n]
    BY <1>4 DEF CountsCommit
  <2> QED
    BY <1>2, <2>1, <2>2
<1>5. ASSUME NEW c \in callbacks[n], CleansUp(n, c)
      PROVE  h \in prepared'[n]
  BY <1>2, <1>5 DEF CleansUp
<1> QED
  BY <1>1, <1>2, <1>3, <1>4, <1>5
     DEF PoolStep, SettlesBlocks, Pools, PoolsBlock, PutsOff, Retries,
         Forgets, StartsAgain

\* Adding a block whose hash is not yet complete, or complete and put off.
LEMMA AddsBlockAbove ==
  ASSUME TypeOK, NEW n \in Node, NEW b \in Block, NEW by, AddsBlock(n, b, by)
  PROVE  \A i \in Above(n)' :
           \/ i \in Above(n) /\ chain'[n][i] = chain[n][i]
           \/ chain'[n][i] = b
  BY AddsBlockResult DEF Above

LEMMA CompletedFirstNext ==
  TypeOK /\ CompletedFirst /\ [Next]_vars => CompletedFirst'
<1> SUFFICES ASSUME TypeOK, CompletedFirst, [Next]_vars, NEW n \in Steady
             PROVE  Completed(n)'
  BY DEF CompletedFirst
<1> USE DEF Completed
<1>1. /\ n \in Node /\ n \notin Expirable /\ PoolStep(n)
      /\ blockPool[n] \subseteq Block
      /\ Completed(n)
  BY EveryStepIsPoolStep DEF Steady, TypeOK, CompletedFirst
<1>2. ASSUME NEW b \in Block, NEW by, AddsBlock(n, b, by),
             b.hash \in committed'[n], committed[n] \subseteq committed'[n],
             UNCHANGED pendingCommits[n]
      PROVE  Completed(n)'
  <2>1. \A i \in Above(n)' : chain'[n][i].hash \in committed'[n]
    BY <1>1, <1>2, AddsBlockAbove
  <2>2. \A c \in callbacks'[n] : c.block.hash \in committed'[n]
    BY <1>1, <1>2, AddsBlockResult
  <2> QED
    BY <1>1, <1>2, <2>1, <2>2
<1>3. ASSUME NEW h \in Hash, NEW v \in Node, CountsCommit(n, h, v)
      PROVE  Completed(n)'
  <2>1. committed[n] \subseteq committed'[n] /\ UNCHANGED pendingCommits[n]
    BY <1>3 DEF CountsCommit
  <2>2. CASE UNCHANGED <<chain[n], callbacks[n]>>
    BY <1>1, <2>1, <2>2 DEF Above
  <2>3. ASSUME NEW b \in blockPool[n], AddsBlock(n, b, "commit"), b.hash = h,
               ThresholdReached(commits[n][h] \union {v})
        PROVE  b.hash \in committed'[n]
    BY <1>3, <2>3 DEF CountsCommit
  <2> QED
    BY <1>1, <1>2, <1>3, <2>1, <2>2, <2>3 DEF CountsCommit
<1>4. ASSUME NEW b \in Block, Retries(n, b)
      PROVE  Completed(n)'
  BY <1>1, <1>2, <1>4 DEF Retries
<1>5. ASSUME NEW c \in callbacks[n], PutsOff(n, c)
      PROVE  Completed(n)'
  BY <1>1, <1>5 DEF PutsOff, WithoutKey, Above
<1>6. ASSUME NEW c \in callbacks[n], CleansUp(n, c)
      PROVE  Completed(n)'
  BY <1>1, <1>6 DEF CleansUp, WithoutKey, Above
<1>7. CASE StartsAgain(n)
  <2>1. DOMAIN <<Genesis>> = {1}
    OBVIOUS
  <2> QED
    BY <1>7, <2>1 DEF StartsAgain, Above
<1>8. CASE UNCHANGED <<committed[n], OtherPools(n)>>
  BY <1>1, <1>8 DEF OtherPools, Above
<1> QED
  BY <1>1, <1>3, <1>4, <1>5, <1>6, <1>7, <1>8
     DEF PoolStep, SettlesBlocks, Pools, PoolsBlock, CountsPrepare, Forgets

LEMMA RefusedIsNowhereNext ==
  ASSUME TypeOK, CompletedFirst, RefusedIsNowhere, [Next]_vars
  PROVE  RefusedIsNowhere'
<1> SUFFICES ASSUME NEW n \in Steady, NEW c \in callbacks'[n], ~ c.isAdded
             PROVE  Nowhere(n, c)'
  BY DEF RefusedIsNowhere
<1> USE DEF Nowhere
<1>1. /\ n \in Node /\ n \notin Expirable /\ PoolStep(n)
      /\ blockPool[n] \subseteq Block /\ Completed(n)
      /\ c \in callbacks[n] => Nowhere(n, c)
  BY EveryStepIsPoolStep DEF Steady, TypeOK, CompletedFirst, RefusedIsNowhere
<1>2. CASE UNCHANGED OtherPools(n)
  BY <1>1, <1>2 DEF OtherPools, Above
<1>3. ASSUME NEW b \in Block, AddsBlock(n, b, "commit"),
             b.hash \notin committed[n], UNCHANGED pendingCommits[n]
      PROVE  Nowhere(n, c)'
  <2>1. CASE c \in callbacks[n]
    <3>1. c.block.hash # b.hash
      BY <1>1, <1>3, <2>1 DEF Completed
    <3>2. \A d \in callbacks'[n] \ callbacks[n] : d.block.hash # c.block.hash
      BY <1>1, <1>3, <3>1, AddsBlockResult
    <3>3. \A i \in Above(n)' : chain'[n][i].hash # c.block.hash
      BY <1>1, <1>3, <2>1, <3>1, AddsBlockAbove
    <3> QED
      BY <1>1, <1>3, <2>1, <3>2, <3>3
  <2>2. CASE c \notin callbacks[n]
    <3>1. c.block = b /\ chain'[n] = chain[n]
      BY <1>1, <1>3, <2>2, AddsBlockResult
    <3>2. \A d \in callbacks'[n] : d.block.hash = c.block.hash => d = c
      BY <1>1, <1>3, <2>2, <3>1, AddsBlockResult DEF Completed
    <3>3. \A i \in Above(n)' : chain'[n][i].hash # c.block.hash
      BY <1>1, <1>3, <3>1 DEF Completed, Above
    <3> QED
      BY <1>1, <1>3, <3>1, <3>2, <3>3 DEF Completed
  <2> QED
    BY <2>1, <2>2
<1>4. ASSUME NEW h \in Hash, NEW v \in Node, CountsCommit(n, h, v)
      PROVE  Nowhere(n, c)'
  <2>1. h \notin committed[n] /\ UNCHANGED pendingCommits[n]
    BY <1>4 DEF CountsCommit
  <2>2. CASE UNCHANGED <<chain[n], callbacks[n]>>
    BY <1>2, <2>1, <2>2 DEF OtherPools
  <2>3. ASSUME NEW b \in blockPool[n], AddsBlock(n, b, "commit"), b.hash = h
        PROVE  Nowhere(n, c)'
    BY <1>1, <1>3, <2>1, <2>3
  <2> QED
    BY <1>4, <2>2, <2>3 DEF CountsCommit
<1>5. ASSUME NEW b \in Block, Retries(n, b)
      PROVE  Nowhere(n, c)'
  <2>1. PICK e \in pendingCommits[n] : e.hash = b.hash
    BY <1>5 DEF Retries
  <2>2. AddsBlock(n, b, "drain") /\ UNCHANGED pendingCommits[n]
    BY <1>5 DEF Retries
  <2>3. c \in callbacks[n]
    BY <1>1, <2>2, AddsBlockResult
  <2>4. c.block.hash # b.hash
    BY <1>1, <2>1, <2>3
  <2>5. \A d \in callbacks'[n] \ callbacks[n] : d.block.hash # c.block.hash
    BY <1>1, <2>2, <2>4, AddsBlockResult
  <2>6. \A i \in Above(n)' : chain'[n][i].hash # c.block.hash
    BY <1>1, <2>2, <2>3, <2>4, AddsBlockAbove
  <2> QED
    BY <1>1, <2>2, <2>3, <2>5, <2>6
<1>6. ASSUME NEW d \in callbacks[n], CleansUp(n, d)
      PROVE  Nowhere(n, c)'
  BY <1>1, <1>6 DEF CleansUp, WithoutKey, Above
<1>7. ASSUME NEW d \in callbacks[n], PutsOff(n, d)
      PROVE  Nowhere(n, c)'
  <2>1. /\ callbacks'[n] = callbacks[n] \ {d} /\ UNCHANGED chain[n]
        /\ \A e \in pendingCommits'[n] :
             e \in pendingCommits[n] \/ e.hash = d.block.hash
    BY <1>7 DEF PutsOff, WithoutKey
  <2>2. c \in callbacks[n] /\ c # d
    BY <2>1
  <2>3. d.block.hash # c.block.hash
    BY <1>1, <2>2
  <2> QED
    BY <1>1, <2>1, <2>2, <2>3 DEF Above
<1>8. ASSUME \/ UNCHANGED Pools(n)
             \/ \E b \in Block : PoolsBlock(n, b)
             \/ \E h \in Hash, v \in Node : CountsPrepare(n, h, v)
      PROVE  UNCHANGED OtherPools(n)
  BY <1>8 DEF Pools, PoolsBlock, CountsPrepare
<1> QED
  BY <1>1, <1>2, <1>4, <1>5, <1>6, <1>7, <1>8
     DEF PoolStep, SettlesBlocks, Forgets, StartsAgain

\* Nothing of block b is in the pools of n.
Clean(n, b) ==
  /\ b \notin blockPool[n]
  /\ prepares[n][b.hash] = {}
  /\ commits[n][b.hash] = {}

LEMMA NoZombieVotesNext ==
  ASSUME ZombieInv, [Next]_vars
  PROVE  NoZombieVotes'
<1> SUFFICES ASSUME NEW n \in Steady, NEW i \in Above(n)', NEW b,
                    b = chain'[n][i], b.data \intersect BadTx = {},
                    \A c \in callbacks'[n] : c.block # b
             PROVE  Clean(n, b)'
  BY DEF NoZombieVotes, Steady, Above, Clean
<1> USE DEF Clean
<1>1. /\ n \in Node /\ n \notin Expirable /\ PoolStep(n) /\ TypeOK
      /\ blockPool[n] \subseteq Block /\ chain[n] \in Seq(Block)
  BY EveryStepIsPoolStep DEF Steady, ZombieInv, TypeInv, TypeOK
<1>2. ASSUME NEW j \in Above(n), chain[n][j] = b
      PROVE  /\ b \in Block /\ b.hash \in Hash /\ b.hash \in prepared[n]
             /\ (\A c \in callbacks[n] : c.block # b) => Clean(n, b)
             /\ \A c \in callbacks[n] : c.block = b => c.isAdded
  <2>1. b \in Block
    BY <1>1, <1>2 DEF Above
  <2>2. b.hash \in Hash
    BY <2>1 DEF Block
  <2>3. b.hash \in committed[n]
    BY <1>2 DEF ZombieInv, CompletedFirst, Completed
  <2>4. b.hash \in prepared[n]
    BY <2>2, <2>3 DEF ZombieInv, CommitAfterPrepared
  <2>5. (\A c \in callbacks[n] : c.block # b) => Clean(n, b)
    BY <1>2 DEF ZombieInv, NoZombieVotes, Steady, Above
  <2>6. \A c \in callbacks[n] : c.block = b => c.isAdded
    BY <1>2 DEF ZombieInv, RefusedIsNowhere, Nowhere
  <2> QED
    BY <2>1, <2>2, <2>4, <2>5, <2>6
<1>3. CASE UNCHANGED <<chain[n], callbacks[n]>>
  <2>1. /\ b.hash \in Hash /\ b.hash \in prepared[n] /\ Clean(n, b)
    BY <1>2, <1>3 DEF Above
  <2>2. CASE UNCHANGED Pools(n)
    BY <2>1, <2>2 DEF Pools
  <2>3. ASSUME NEW d \in Block, PoolsBlock(n, d)
        PROVE  Clean(n, b)'
    BY <2>1, <2>3 DEF PoolsBlock
  <2>4. ASSUME NEW h \in Hash, NEW v \in Node, CountsPrepare(n, h, v)
        PROVE  Clean(n, b)'
    BY <2>1, <2>4 DEF CountsPrepare
  <2>5. ASSUME NEW h \in Hash, NEW v \in Node, CountsCommit(n, h, v)
        PROVE  Clean(n, b)'
    BY <2>1, <2>5 DEF CountsCommit
  <2>6. ASSUME NEW d \in Block, Retries(n, d)
        PROVE  Clean(n, b)'
    BY <2>1, <2>6 DEF Retries
  <2>7. ASSUME NEW c \in callbacks[n], CleansUp(n, c) \/ PutsOff(n, c)
        PROVE  FALSE
    BY <1>3, <2>7 DEF CleansUp, PutsOff
  <2>8. CASE StartsAgain(n)
    BY <2>1, <2>8 DEF StartsAgain
  <2> QED
    BY <1>1, <2>2, <2>3, <2>4, <2>5, <2>6, <2>7, <2>8
       DEF PoolStep, SettlesBlocks, Forgets
<1>4. ASSUME NEW d \in Block, NEW by, AddsBlock(n, d, by)
      PROVE  /\ b.hash \in Hash /\ Clean(n, b)
  <2>1. i \in Above(n) /\ chain[n][i] = b
    BY <1>1, <1>4, AddsBlockResult DEF Above
  <2>2. \A c \in callbacks[n] : c.block # b
    BY <1>1, <1>4, AddsBlockResult
  <2> QED
    BY <1>2, <2>1, <2>2
<1>5. ASSUME NEW h \in Hash, NEW v \in Node, CountsCommit(n, h, v)
      PROVE  Clean(n, b)'
  <2>1. CASE \E d \in blockPool[n] : AddsBlock(n, d, "commit")
    <3>1. b.hash \in Hash /\ Clean(n, b)
      BY <1>1, <1>4, <2>1
    <3> QED
      BY <1>5, <3>1 DEF CountsCommit
  <2> QED
    BY <1>3, <1>5, <2>1 DEF CountsCommit
<1>6. ASSUME NEW d \in Block, Retries(n, d)
      PROVE  Clean(n, b)'
  BY <1>4, <1>6 DEF Retries
<1>7. ASSUME NEW c \in callbacks[n], CleansUp(n, c)
      PROVE  Clean(n, b)'
  <2>1. i \in Above(n) /\ chain[n][i] = b
    BY <1>7 DEF CleansUp, Above
  <2>2. b.hash \in Hash
    BY <1>2, <2>1
  <2>3. CASE c.block = b
    BY <1>7, <2>2, <2>3 DEF CleansUp
  <2>4. CASE c.block # b
    <3>1. Clean(n, b)
      BY <1>2, <1>7, <2>1, <2>4 DEF CleansUp
    <3> QED
      BY <1>7, <2>2, <3>1 DEF CleansUp
  <2> QED
    BY <2>3, <2>4
<1>8. ASSUME NEW c \in callbacks[n], PutsOff(n, c)
      PROVE  Clean(n, b)'
  <2>1. i \in Above(n) /\ chain[n][i] = b
    BY <1>8 DEF PutsOff, Above
  <2>2. c.block # b
    BY <1>2, <1>8, <2>1 DEF PutsOff
  <2> QED
    BY <1>2, <1>8, <2>1, <2>2 DEF PutsOff
<1>9. CASE StartsAgain(n)
  <2>1. DOMAIN <<Genesis>> = {1}
    OBVIOUS
  <2> QED
    BY <1>9, <2>1 DEF StartsAgain, Above
<1>10. ASSUME \/ UNCHANGED Pools(n)
              \/ \E d \in Block : PoolsBlock(n, d)
              \/ \E h \in Hash, v \in Node : CountsPrepare(n, h, v)
       PROVE  UNCHANGED <<chain[n], callbacks[n]>>
  BY <1>10 DEF Pools, OtherPools, PoolsBlock, CountsPrepare
<1> QED
  BY <1>1, <1>3, <1>5, <1>6, <1>7, <1>8, <1>9, <1>10
     DEF PoolStep, SettlesBlocks, Forgets

LEMMA ZombieInit == Init => ZombieInv
<1> SUFFICES ASSUME Init PROVE ZombieInv
  OBVIOUS
<1>1. \A n \in Node : DOMAIN chain[n] \ {1} = {}
  BY DEF Init
<1> QED
  BY <1>1, TypeInit DEF Init, ZombieInv, CommitAfterPrepared, CompletedFirst,
     Completed, RefusedIsNowhere, NoZombieVotes, Steady, Above

LEMMA ZombieNext == ZombieInv /\ [Next]_vars => ZombieInv'
<1> SUFFICES ASSUME ZombieInv, [Next]_vars PROVE ZombieInv'
  OBVIOUS
<1>1. TypeInv' /\ CommitAfterPrepared' /\ CompletedFirst'
  BY TypeNext, CommitAfterPreparedNext, CompletedFirstNext
     DEF ZombieInv, TypeInv
<1>2. RefusedIsNowhere' /\ NoZombieVotes'
  BY RefusedIsNowhereNext, NoZombieVotesNext DEF ZombieInv, TypeInv
<1> QED
  BY <1>1, <1>2 DEF ZombieInv

\* On a node whose cache entries do not expire, a block that was added and
\* cleaned up after never comes back into the pools, nor do votes for it,
\* whichever copies of its messages still arrive and in whatever order.
THEOREM NoVoteReturns == Spec => []NoZombieVotes
<1>1. ZombieInv => NoZombieVotes
  BY DEF ZombieInv
<1> QED
  BY <1>1, ZombieInit, ZombieNext, PTL DEF Spec
=============================================================================
