-------------------------- MODULE NotaryConsensus --------------------------
(***************************************************************************)
(* The replicas of the core engine (src/core): the message handlers of     *)
(* P2pServer, its periodic proposeBlock, the blockchain object, and the    *)
(* transaction, block, prepare and commit pools they share.                *)
(*                                                                         *)
(* JavaScript runs one handler at a time, so a handler is one action.  Two *)
(* things are not atomic: the continuation of addBlockToBlockhain, which   *)
(* waits for the database write (variable callbacks), and the passage of   *)
(* time, which can expire a cache entry between two handlers, or inside    *)
(* the loop of proposeBlock over the pending commits.  That loop is taken  *)
(* one key at a time with the node's other handlers shut out (busy).       *)
(*                                                                         *)
(* The network of this module is as weak as it can be: msgs holds all that *)
(* was ever broadcast, and a node may receive any of it in any order, any  *)
(* number of times, or never.  Relaying a message therefore leaves msgs    *)
(* alone; NotaryMesh has the FIFO sockets, where relaying matters.         *)
(***************************************************************************)
EXTENDS Naturals, Sequences, FiniteSets

CONSTANTS
  Node,          \* the running processes
  Validator,     \* the owners of the keys in validators.list
  Proposer,      \* the owner of the last key in that list
  MinApprovals,  \* config.MIN_APPROVALS
  Tx,            \* the transactions that may be submitted
  BadTx,         \* those holding a request whose priority_id is unknown
  TxLimit,       \* the most transactions one block takes
  MaxBlocks,     \* bound: how many blocks are ever proposed
  Expirable,     \* bound: the nodes whose cache entries may reach their TTL
  Restartable    \* bound: the nodes that may die and be started again

ASSUME NodeAssumption ==
  /\ IsFiniteSet(Node)
  /\ Proposer \in Validator
  /\ Expirable \subseteq Node
  /\ Restartable \subseteq Node
ASSUME BoundAssumption ==
  /\ MinApprovals \in Nat
  /\ MaxBlocks \in Nat
  /\ TxLimit \in Nat
  /\ IsFiniteSet(Tx)
  /\ BadTx \subseteq Tx

(***************************************************************************)
(* A block's hash covers its parent's hash, its transaction ids and the    *)
(* millisecond it was made in; here it is the number of the proposal.      *)
(***************************************************************************)
Hash == 0 .. MaxBlocks

Block == [hash : Hash, lastHash : Hash, sequenceId : 0 .. MaxBlocks,
          data : SUBSET Tx, proposer : Validator]

\* Nobody reads the genesis block's proposer, which is the key of no one.
Genesis == [hash |-> 0, lastHash |-> 0, sequenceId |-> 0,
            data |-> {}, proposer |-> Proposer]

TxMsg(t, n)      == [type |-> "transaction", tx |-> t, from |-> n]
PrePrepareMsg(b) == [type |-> "pre_prepare", block |-> b]
PrepareMsg(h, n) == [type |-> "prepare", blockHash |-> h, from |-> n]
\* Mutant: a vote that does not say whose it is.
AnonymousCommit(h, n) == [type |-> "commit", blockHash |-> h]

CommitMsg(h, n)  == [type |-> "commit", blockHash |-> h, from |-> n]

Message ==
  [type : {"transaction"}, tx : Tx, from : Node]
    \union [type : {"pre_prepare"}, block : Block]
    \union [type : {"prepare", "commit"}, blockHash : Hash, from : Node]

VARIABLES
  msgs,               \* every message broadcast so far
  minted,             \* how many blocks have been proposed
  chain,              \* chain[n]: the blocks n added, the last is latestBlock
  txPool,             \* transactionPool.pendingTransactions
  blockPool,          \* blockPool.pendingBlocks
  prepares,           \* preparePool.pendingPBFTMessages: who voted, {} if none
  prepared,           \* preparePool.completedPBFTMessages
  commits,            \* commitPool.pendingPBFTMessages
  committed,          \* commitPool.completedPBFTMessages
  pendingCommits,     \* pendingCommitedBlocks, keyed by sequenceId
  callbacks,          \* .then continuations that have not run yet
  proposedSequenceId, \* the sequence id the node would propose next
  busy,               \* is the node inside proposeBlock's loop
  keys                \* the keys that loop has still to visit

poolVars     == <<txPool, blockPool>>
voteVars     == <<prepares, prepared, commits, committed>>
chainVars    == <<chain, callbacks>>
proposalVars == <<minted, proposedSequenceId>>
tickVars     == <<busy, keys>>
vars == <<msgs, poolVars, voteVars, chainVars, pendingCommits, proposalVars,
          tickVars>>

Entry == [sequenceId : 0 .. MaxBlocks, hash : Hash]
Callback == [block : Block, isAdded : BOOLEAN, by : {"commit", "drain"}]

TypeOK ==
  /\ msgs \subseteq Message
  /\ minted \in Hash
  /\ chain \in [Node -> Seq(Block)]
  /\ \A n \in Node : chain[n] # <<>>
  /\ txPool \in [Node -> SUBSET Tx]
  /\ blockPool \in [Node -> SUBSET Block]
  /\ prepares \in [Node -> [Hash -> SUBSET Node]]
  /\ prepared \in [Node -> SUBSET Hash]
  /\ commits \in [Node -> [Hash -> SUBSET Node]]
  /\ committed \in [Node -> SUBSET Hash]
  /\ pendingCommits \in [Node -> SUBSET Entry]
  /\ callbacks \in [Node -> SUBSET Callback]
  /\ proposedSequenceId \in [Node -> 1 .. MaxBlocks + 1]
  /\ busy \in [Node -> BOOLEAN]
  /\ keys \in [Node -> SUBSET (0 .. MaxBlocks)]

(***************************************************************************)
(* A process that has just been started: listen() runs proposeBlock, which *)
(* finds height 0, adds the genesis block and counts it as proposed.       *)
(***************************************************************************)
Init ==
  /\ msgs = {}
  /\ minted = 0
  /\ chain = [n \in Node |-> <<Genesis>>]
  /\ txPool = [n \in Node |-> {}]
  /\ blockPool = [n \in Node |-> {}]
  /\ prepares = [n \in Node |-> [h \in Hash |-> {}]]
  /\ prepared = [n \in Node |-> {}]
  /\ commits = [n \in Node |-> [h \in Hash |-> {}]]
  /\ committed = [n \in Node |-> {}]
  /\ pendingCommits = [n \in Node |-> {}]
  /\ callbacks = [n \in Node |-> {}]
  /\ proposedSequenceId = [n \in Node |-> 1]
  /\ busy = [n \in Node |-> FALSE]
  /\ keys = [n \in Node |-> {}]

Broadcast(S) == msgs' = msgs \union S

(***************************************************************************)
(* The blockchain object.                                                  *)
(***************************************************************************)
LatestBlock(n) == chain[n][Len(chain[n])]

\* Mutant: the block is not compared with the latest one.
IsFromProposer(n, b) == b.proposer = Proposer

IsValidBlock(n, b) ==
  /\ b.sequenceId = LatestBlock(n).sequenceId + 1
  /\ b.lastHash = LatestBlock(n).hash
  /\ b.proposer = Proposer

\* Mutant: the commit handler forgets a block that was refused.
OutcomesIfAdded(n, b, by) ==
  IF IsValidBlock(n, b) /\ b.data \intersect BadTx = {} THEN {TRUE} ELSE {}

\* What addBlockToBlockhain(b), called by the commit handler or by the drain
\* loop, resolves to, if it does and if the continuation does anything with
\* it.  A block with an unknown priority has already replaced latestBlock when
\* countNumberOfTxInBlock throws, and then no continuation runs.  The drain
\* loop does nothing for a block that was not added.
Outcomes(n, b, by) ==
  IF IsValidBlock(n, b)
  THEN IF b.data \intersect BadTx = {} THEN {TRUE} ELSE {}
  ELSE IF by = "commit" THEN {FALSE} ELSE {}

Continuations(n, b, by) ==
  {[block |-> b, isAdded |-> added, by |-> by] : added \in Outcomes(n, b, by)}

AddBlock(n, b, by) ==
  /\ chain' = IF IsValidBlock(n, b)
              THEN [chain EXCEPT ![n] = Append(@, b)] ELSE chain
  /\ callbacks' = [callbacks EXCEPT ![n] = @ \union Continuations(n, b, by)]

(***************************************************************************)
(* What the handlers check before they accept a message, in their order:   *)
(* a known sender, a pool that is ready for it, and not seen before.       *)
(***************************************************************************)
AcceptsTransaction(n, m) ==
  /\ m.from \in Validator
  /\ m.tx \notin txPool[n]

\* Mutant: a block that was already voted for is not recognised.
AcceptsUnpooledBlock(n, m) ==
  /\ m.block.proposer \in Validator
  /\ \A b \in blockPool[n] : b.hash # m.block.hash

AcceptsPrePrepare(n, m) ==
  /\ m.block.proposer \in Validator
  /\ \A b \in blockPool[n] : b.hash # m.block.hash
  /\ m.block.hash \notin prepared[n]

AcceptsPrepare(n, m) ==
  /\ m.from \in Validator
  /\ prepares[n][m.blockHash] # {}
  /\ m.blockHash \notin prepared[n]
  /\ m.from \notin prepares[n][m.blockHash]

AcceptsCommit(n, m) ==
  /\ m.from \in Validator
  /\ commits[n][m.blockHash] # {}
  /\ m.blockHash \notin committed[n]
  /\ m.from \notin commits[n][m.blockHash]

Accepts(n, m) ==
  \/ m.type = "transaction" /\ AcceptsTransaction(n, m)
  \/ m.type = "pre_prepare" /\ AcceptsPrePrepare(n, m)
  \/ m.type = "prepare" /\ AcceptsPrepare(n, m)
  \/ m.type = "commit" /\ AcceptsCommit(n, m)

\* Mutant: one approval short.
ThresholdAlmostReached(voters) == Cardinality(voters) + 1 >= MinApprovals

\* Mutant: more approvals than the minimum.
ThresholdExceeded(voters) == Cardinality(voters) > MinApprovals

\* valueMap.size once the message's sender has been added
ThresholdReached(voters) == Cardinality(voters) >= MinApprovals

PrepareCompletes(n, m) ==
  ThresholdReached(prepares[n][m.blockHash] \union {m.from})

CommitCompletes(n, m) ==
  ThresholdReached(commits[n][m.blockHash] \union {m.from})

\* The vote of its own that n broadcasts when it accepts m, if any.
OwnVotes(n, m) ==
  IF m.type = "pre_prepare" /\ prepares[n][m.block.hash] = {}
    THEN {PrepareMsg(m.block.hash, n)}
  ELSE IF /\ m.type = "prepare"
          /\ PrepareCompletes(n, m)
          /\ commits[n][m.blockHash] = {}
          /\ m.blockHash \notin committed[n]
    THEN {CommitMsg(m.blockHash, n)}
  ELSE {}

(***************************************************************************)
(* The message handlers.                                                   *)
(***************************************************************************)
OnTransaction(n, m) ==
  /\ m.type = "transaction"
  /\ AcceptsTransaction(n, m)
  /\ txPool' = [txPool EXCEPT ![n] = @ \union {m.tx}]
  /\ UNCHANGED <<blockPool, voteVars, chainVars, pendingCommits>>

OnPrePrepare(n, m) ==
  /\ m.type = "pre_prepare"
  /\ AcceptsPrePrepare(n, m)
  /\ blockPool' = [blockPool EXCEPT ![n] = @ \union {m.block}]
  /\ prepares' = IF prepares[n][m.block.hash] = {}
                 THEN [prepares EXCEPT ![n][m.block.hash] = {n}]
                 ELSE prepares
  /\ UNCHANGED <<txPool, prepared, commits, committed, chainVars,
                 pendingCommits>>

OnPrepare(n, m) ==
  /\ m.type = "prepare"
  /\ AcceptsPrepare(n, m)
  /\ prepares' = [prepares EXCEPT ![n][m.blockHash] = @ \union {m.from}]
  /\ prepared' = IF PrepareCompletes(n, m)
                 THEN [prepared EXCEPT ![n] = @ \union {m.blockHash}]
                 ELSE prepared
  /\ commits' = IF OwnVotes(n, m) # {}
                THEN [commits EXCEPT ![n][m.blockHash] = {n}]
                ELSE commits
  /\ UNCHANGED <<poolVars, committed, chainVars, pendingCommits>>

OnCommit(n, m) ==
  /\ m.type = "commit"
  /\ AcceptsCommit(n, m)
  /\ commits' = [commits EXCEPT ![n][m.blockHash] = @ \union {m.from}]
  /\ \/ /\ CommitCompletes(n, m)
        /\ committed' = [committed EXCEPT ![n] = @ \union {m.blockHash}]
        /\ \/ \E b \in blockPool[n] :
                b.hash = m.blockHash /\ AddBlock(n, b, "commit")
           \/ /\ \A b \in blockPool[n] : b.hash # m.blockHash
              /\ UNCHANGED chainVars
     \/ /\ ~ CommitCompletes(n, m)
        /\ UNCHANGED <<committed, chainVars>>
  /\ UNCHANGED <<poolVars, prepares, prepared, pendingCommits>>

\* The relay of an accepted message and n's own vote are what it broadcasts.
Receive(n, m) ==
  /\ ~ busy[n]
  /\ Broadcast({m} \union OwnVotes(n, m))
  /\ \/ OnTransaction(n, m)
     \/ OnPrePrepare(n, m)
     \/ OnPrepare(n, m)
     \/ OnCommit(n, m)
  /\ UNCHANGED <<proposalVars, tickVars>>

\* POST /transact fills the request pool: the new transaction is broadcast,
\* and reaches the sender's own pool only when a peer relays it.
Submit(n, t) ==
  /\ ~ busy[n]
  /\ \A m \in msgs : m.type = "transaction" => m.tx # t
  /\ Broadcast({TxMsg(t, n)})
  /\ UNCHANGED <<poolVars, voteVars, chainVars, pendingCommits,
                 proposalVars, tickVars>>

(***************************************************************************)
(* The continuation of addBlockToBlockhain.                                *)
(***************************************************************************)
WithoutKey(entries, s) == {e \in entries : e.sequenceId # s}

\* Mutant: every pooled transaction counts as included.
WithoutAll(pool, b) == {}

WithoutIncluded(pool, b) == pool \ b.data

AfterAdd(n, c) ==
  /\ c.isAdded
  /\ blockPool' = [blockPool EXCEPT ![n] =
                     {b \in @ : b.hash # c.block.hash}]
  /\ prepares' = [prepares EXCEPT ![n][c.block.hash] = {}]
  /\ commits' = [commits EXCEPT ![n][c.block.hash] = {}]
  /\ txPool' = [txPool EXCEPT ![n] = WithoutIncluded(@, c.block)]
  /\ pendingCommits' = IF c.by = "drain"
       THEN [pendingCommits EXCEPT ![n] = WithoutKey(@, c.block.sequenceId)]
       ELSE pendingCommits

AfterRefusal(n, c) ==
  /\ ~ c.isAdded
  /\ pendingCommits' = [pendingCommits EXCEPT ![n] =
       WithoutKey(@, c.block.sequenceId)
         \union {[sequenceId |-> c.block.sequenceId, hash |-> c.block.hash]}]
  /\ UNCHANGED <<poolVars, prepares, commits>>

Continue(n, c) ==
  /\ ~ busy[n]
  /\ callbacks' = [callbacks EXCEPT ![n] = @ \ {c}]
  /\ AfterAdd(n, c) \/ AfterRefusal(n, c)
  /\ UNCHANGED <<msgs, prepared, committed, chain, proposalVars, tickVars>>

(***************************************************************************)
(* proposeBlock, every block interval.  It first retries the pending       *)
(* commits, visiting the keys in the order Array.prototype.sort gives      *)
(* them, which compares the decimal numerals as strings; an entry that has *)
(* expired, or whose block has, ends the loop.                             *)
(***************************************************************************)
Numeral(k) == CHOOSE d \in 1 .. k + 1 : 10 ^ (d - 1) <= k /\ k < 10 ^ d

KeyLeq(j, k) ==
  LET x == j * 10 ^ Numeral(k)
      y == k * 10 ^ Numeral(j)
  IN  x < y \/ (x = y /\ j <= k)

PendingKeys(n) == {e.sequenceId : e \in pendingCommits[n]}

StartDrain(n) ==
  /\ ~ busy[n]
  /\ pendingCommits[n] # {}
  /\ busy' = [busy EXCEPT ![n] = TRUE]
  /\ keys' = [keys EXCEPT ![n] = PendingKeys(n)]
  /\ UNCHANGED <<msgs, poolVars, voteVars, chainVars, pendingCommits,
                 proposalVars>>

Retryable(n, k) ==
  {b \in blockPool[n] : [sequenceId |-> k, hash |-> b.hash]
                          \in pendingCommits[n]}

DrainKey(n) ==
  /\ busy[n]
  /\ \E k \in keys[n] :
       /\ \A j \in keys[n] : KeyLeq(k, j)
       /\ \/ /\ keys' = [keys EXCEPT ![n] = @ \ {k}]
             /\ \E b \in Retryable(n, k) : AddBlock(n, b, "drain")
          \/ /\ Retryable(n, k) = {}
             /\ keys' = [keys EXCEPT ![n] = {}]
             /\ UNCHANGED chainVars
  /\ UNCHANGED <<msgs, poolVars, voteVars, pendingCommits, proposalVars, busy>>

\* getAllPendingTransactions keeps the first TxLimit of an ordered pool.
PendingTransactions(n) ==
  {data \in SUBSET txPool[n] :
     \/ data = txPool[n] /\ Cardinality(data) <= TxLimit
     \/ Cardinality(data) = TxLimit /\ Cardinality(txPool[n]) > TxLimit}

NewBlock(n, data) ==
  [hash |-> minted + 1, lastHash |-> LatestBlock(n).hash,
   sequenceId |-> LatestBlock(n).sequenceId + 1, data |-> data, proposer |-> n]

\* Mutant: any block above the latest one may be proposed again.
MayProposeAgain(n) == n = Proposer

\* It is this node's turn, and it has not proposed this sequence id yet.
MayPropose(n) ==
  /\ n = Proposer
  /\ LatestBlock(n).sequenceId + 1 = proposedSequenceId[n]

\* The tick has no pending commit to retry, or has finished with them.
DrainDone(n) ==
  \/ ~ busy[n] /\ pendingCommits[n] = {}
  \/ busy[n] /\ keys[n] = {}

Propose(n, data) ==
  /\ DrainDone(n)
  /\ MayPropose(n)
  /\ minted < MaxBlocks
  /\ Broadcast({PrePrepareMsg(NewBlock(n, data))})
  /\ minted' = minted + 1
  /\ proposedSequenceId' = [proposedSequenceId EXCEPT ![n] = @ + 1]
  /\ busy' = [busy EXCEPT ![n] = FALSE]
  /\ UNCHANGED <<poolVars, voteVars, chainVars, pendingCommits, keys>>

\* The end of a tick with nothing to propose.
EndTick(n) ==
  /\ busy[n] /\ keys[n] = {}
  /\ ~ MayPropose(n) \/ minted = MaxBlocks
  /\ busy' = [busy EXCEPT ![n] = FALSE]
  /\ UNCHANGED <<msgs, poolVars, voteVars, chainVars, pendingCommits,
                 proposalVars, keys>>

(***************************************************************************)
(* Time: an entry of a NodeCache reaches its TTL (30 s in the block pool   *)
(* and the completed votes, 10 s in the pending commits).                  *)
(***************************************************************************)
Expire(n) ==
  /\ \/ \E b \in blockPool[n] :
          /\ blockPool' = [blockPool EXCEPT ![n] = @ \ {b}]
          /\ UNCHANGED <<prepared, committed, pendingCommits>>
     \/ \E h \in prepared[n] :
          /\ prepared' = [prepared EXCEPT ![n] = @ \ {h}]
          /\ UNCHANGED <<blockPool, committed, pendingCommits>>
     \/ \E h \in committed[n] :
          /\ committed' = [committed EXCEPT ![n] = @ \ {h}]
          /\ UNCHANGED <<blockPool, prepared, pendingCommits>>
     \/ \E e \in pendingCommits[n] :
          /\ pendingCommits' = [pendingCommits EXCEPT ![n] = @ \ {e}]
          /\ UNCHANGED <<blockPool, prepared, committed>>
  /\ UNCHANGED <<msgs, txPool, prepares, commits, chainVars, proposalVars,
                 tickVars>>

\* The process dies and is started again: the constructor clears the
\* database, so nothing of the old chain or of the pools is left.
Restart(n) ==
  /\ chain' = [chain EXCEPT ![n] = <<Genesis>>]
  /\ txPool' = [txPool EXCEPT ![n] = {}]
  /\ blockPool' = [blockPool EXCEPT ![n] = {}]
  /\ prepares' = [prepares EXCEPT ![n] = [h \in Hash |-> {}]]
  /\ prepared' = [prepared EXCEPT ![n] = {}]
  /\ commits' = [commits EXCEPT ![n] = [h \in Hash |-> {}]]
  /\ committed' = [committed EXCEPT ![n] = {}]
  /\ pendingCommits' = [pendingCommits EXCEPT ![n] = {}]
  /\ callbacks' = [callbacks EXCEPT ![n] = {}]
  /\ proposedSequenceId' = [proposedSequenceId EXCEPT ![n] = 1]
  /\ busy' = [busy EXCEPT ![n] = FALSE]
  /\ keys' = [keys EXCEPT ![n] = {}]
  /\ UNCHANGED <<msgs, minted>>

Next ==
  \/ \E n \in Node, m \in msgs : Receive(n, m)
  \/ \E n \in Node, t \in Tx : Submit(n, t)
  \/ \E n \in Node : \E c \in callbacks[n] : Continue(n, c)
  \/ \E n \in Node : StartDrain(n) \/ DrainKey(n) \/ EndTick(n)
  \/ \E n \in Node : \E data \in PendingTransactions(n) : Propose(n, data)
  \/ \E n \in Expirable : Expire(n)
  \/ \E n \in Restartable : Restart(n)

Spec == Init /\ [][Next]_vars
-----------------------------------------------------------------------------
(***************************************************************************)
(* What the replicas promise.                                              *)
(***************************************************************************)
Proposals == {m.block : m \in {x \in msgs : x.type = "pre_prepare"}}

Voters(type, h) ==
  {m.from : m \in {x \in msgs : x.type = type /\ x.blockHash = h}}

\* No two nodes ever hold different blocks at the same height, whatever the
\* network loses or reorders and whichever caches expire.  Votes are not
\* locked to a height, so this rests on proposedSequenceId alone keeping the
\* proposer from signing two blocks of one height (p2p_server.js:59, 292).
Agreement ==
  \A m, n \in Node :
    \A i \in DOMAIN chain[m] \intersect DOMAIN chain[n] :
      chain[m][i] = chain[n][i]

\* The same for the nodes other than the proposer.
BackupsAgree ==
  \A m, n \in Node \ {Proposer} :
    \A i \in DOMAIN chain[m] \intersect DOMAIN chain[n] :
      chain[m][i] = chain[n][i]

\* Every block in a chain has MIN_APPROVALS different voters behind it in
\* both phases, over restarts, expired caches and the drain loop.
CommitCertificate ==
  \A n \in Node : \A i \in DOMAIN chain[n] \ {1} :
    \A type \in {"prepare", "commit"} :
      Cardinality(Voters(type, chain[n][i].hash)) >= MinApprovals

\* Once the continuation of an added block has cleaned up, late copies of its
\* messages never fill the pools again, on a node whose cache entries do not
\* expire.  A block of unknown priority has no such continuation.
NoZombieVotes ==
  \A n \in Node \ Expirable : \A i \in DOMAIN chain[n] \ {1} :
    LET b == chain[n][i] IN
    b.data \intersect BadTx = {} /\ (\A c \in callbacks[n] : c.block # b) =>
      /\ b \notin blockPool[n]
      /\ prepares[n][b.hash] = {}
      /\ commits[n][b.hash] = {}

\* A request of unknown priority is reported and nothing more (blockchain_db.js
\* 187-189): a block that was added is stored, and its messages cleaned up, if
\* only by a continuation that is still to run.
AddedBlocksComplete ==
  \A n \in Node : \A i \in DOMAIN chain[n] \ {1} :
    chain[n][i] \in blockPool[n] =>
      \E c \in callbacks[n] : c.block = chain[n][i] /\ c.isAdded

\* A block that gathered its commits is in the chain, is waiting to be
\* retried, or is in a continuation: out of order commits lose no block, on a
\* node whose cache entries do not expire.
NoCommitLost ==
  \A n \in Node \ Expirable : \A h \in committed[n] :
    \/ \E i \in DOMAIN chain[n] : chain[n][i].hash = h
    \/ \E e \in pendingCommits[n] : e.hash = h
    \/ \E c \in callbacks[n] : c.block.hash = h

\* "begin inserting from the lowest sequence id" (p2p_server.js:268): while it
\* retries a key, no lower one waits behind it.
LowestFirst ==
  [][\A n \in Node : \A k \in keys[n] \ keys'[n] :
       \A j \in keys'[n] : k < j]_vars

\* A transaction leaves a node's pool only once it is in the node's chain, or
\* when the node is started again.
TxKeptUntilIncluded ==
  [][\A n \in Node : \A t \in txPool[n] \ txPool'[n] :
       \/ \E i \in DOMAIN chain[n] : t \in chain[n][i].data
       \/ chain'[n] = <<Genesis>>]_vars

\* The replicas implement one ledger: the proposals, by sequence id.  Each
\* chain takes the ledger's blocks in turn, and the proposer proposes only on
\* top of a ledger it has caught up with.
LedgerOf(blocks, height) ==
  [i \in 1 .. height + 1 |->
     IF i = 1 THEN Genesis ELSE CHOOSE b \in blocks : b.sequenceId = i - 1]

Ledger == LedgerOf(Proposals, minted)

L == INSTANCE ReplicatedLedger WITH ledger <- Ledger
LedgerSpec == L!Spec
=============================================================================
