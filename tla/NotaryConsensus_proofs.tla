----------------------- MODULE NotaryConsensus_proofs -----------------------
(***************************************************************************)
(* Proofs about NotaryConsensus, for any set of nodes, any number of       *)
(* approvals and any bounds.                                               *)
(***************************************************************************)
EXTENDS NotaryConsensus, FiniteSetTheorems, SequenceTheorems, TLAPS

(***************************************************************************)
(* Type correctness.  A block's sequence id stays in its range because no  *)
(* node is further ahead than the number of blocks ever proposed.          *)
(***************************************************************************)
NotAhead == \A n \in Node : proposedSequenceId[n] <= minted + 1

TypeInv == TypeOK /\ NotAhead

LEMMA GenesisType == Genesis \in Block
  BY NodeAssumption, BoundAssumption DEF Genesis, Block, Hash

LEMMA TypeInit == Init => TypeInv
<1> SUFFICES ASSUME Init PROVE TypeInv
  OBVIOUS
<1>1. <<Genesis>> \in Seq(Block)
  BY GenesisType
<1> QED
  BY <1>1, BoundAssumption DEF Init, TypeInv, TypeOK, NotAhead, Hash

\* A pool of node n replaced by another set of entries of the same type.
LEMMA PoolUpdate ==
  ASSUME NEW T, NEW pool \in [Node -> SUBSET T], NEW n \in Node,
         NEW entries \in SUBSET T
  PROVE  [pool EXCEPT ![n] = entries] \in [Node -> SUBSET T]
  OBVIOUS

\* The block a node holds last is a block.
LEMMA LatestBlockType ==
  ASSUME TypeOK, NEW n \in Node
  PROVE  LatestBlock(n) \in Block
  BY DEF TypeOK, LatestBlock

\* What AddBlock does to the two variables it may change.
LEMMA AddBlockType ==
  ASSUME TypeOK, NEW n \in Node, NEW b \in Block, NEW by \in {"commit", "drain"},
         AddBlock(n, b, by)
  PROVE  /\ chain' \in [Node -> Seq(Block)]
         /\ \A k \in Node : chain'[k] # <<>>
         /\ callbacks' \in [Node -> SUBSET Callback]
<1>1. Continuations(n, b, by) \subseteq Callback
  <2>1. Outcomes(n, b, by) \subseteq BOOLEAN
    BY DEF Outcomes
  <2>2. \A added \in BOOLEAN :
          [block |-> b, isAdded |-> added, by |-> by] \in Callback
    BY DEF Callback
  <2> QED
    BY <2>1, <2>2 DEF Continuations
<1>2. callbacks' \in [Node -> SUBSET Callback]
  BY <1>1 DEF AddBlock, TypeOK
<1>3. Append(chain[n], b) \in Seq(Block) /\ Append(chain[n], b) # <<>>
  <2>1. chain[n] \in Seq(Block)
    BY DEF TypeOK
  <2>2. Append(chain[n], b) \in Seq(Block)
    BY <2>1
  <2>3. Len(Append(chain[n], b)) # 0
    BY <2>1
  <2> QED
    BY <2>2, <2>3
<1>4. chain' \in [Node -> Seq(Block)] /\ \A k \in Node : chain'[k] # <<>>
  BY <1>3 DEF AddBlock, TypeOK
<1> QED
  BY <1>2, <1>4

\* The fields of a message, and the messages a node makes.
LEMMA MessageFields ==
  ASSUME NEW m \in Message
  PROVE  /\ m.type = "transaction" => m.tx \in Tx /\ m.from \in Node
         /\ m.type = "pre_prepare" => m.block \in Block
         /\ m.type \in {"prepare", "commit"} =>
              m.blockHash \in Hash /\ m.from \in Node
  BY DEF Message

LEMMA NewMessages ==
  ASSUME NEW n \in Node
  PROVE  /\ \A t \in Tx : TxMsg(t, n) \in Message
         /\ \A b \in Block : PrePrepareMsg(b) \in Message
         /\ \A h \in Hash : PrepareMsg(h, n) \in Message
         /\ \A h \in Hash : CommitMsg(h, n) \in Message
  BY DEF Message, TxMsg, PrePrepareMsg, PrepareMsg, CommitMsg

LEMMA OwnVotesType ==
  ASSUME NEW n \in Node, NEW m \in Message
  PROVE  OwnVotes(n, m) \subseteq Message
<1>1. CASE m.type = "pre_prepare"
  <2>1. m.block.hash \in Hash
    BY <1>1, MessageFields DEF Block
  <2> QED
    BY <1>1, <2>1, NewMessages DEF OwnVotes
<1>2. CASE m.type = "prepare"
  BY <1>2, MessageFields, NewMessages DEF OwnVotes
<1>3. CASE m.type \notin {"pre_prepare", "prepare"}
  BY <1>3 DEF OwnVotes
<1> QED
  BY <1>1, <1>2, <1>3

LEMMA TypeReceive ==
  ASSUME TypeInv, NEW n \in Node, NEW m \in msgs, Receive(n, m)
  PROVE  TypeInv'
<1> USE DEF TypeInv, TypeOK, poolVars, voteVars, chainVars, proposalVars,
        tickVars
<1>1. m \in Message
  OBVIOUS
<1>2. msgs' \subseteq Message
  BY <1>1, OwnVotesType DEF Receive, Broadcast
<1>3. UNCHANGED <<minted, proposedSequenceId, busy, keys>> /\ NotAhead'
  BY DEF Receive, NotAhead
<1>4. CASE OnTransaction(n, m)
  BY <1>1, <1>2, <1>3, <1>4, MessageFields DEF OnTransaction
<1>5. CASE OnPrePrepare(n, m)
  <2>1. m.block \in Block /\ m.block.hash \in Hash
    BY <1>1, <1>5, MessageFields DEF OnPrePrepare, Block
  <2>2. prepares' \in [Node -> [Hash -> SUBSET Node]]
    BY <1>5, <2>1 DEF OnPrePrepare
  <2>3. blockPool' \in [Node -> SUBSET Block]
    BY <1>5, <2>1 DEF OnPrePrepare
  <2> QED
    BY <1>2, <1>3, <1>5, <2>2, <2>3 DEF OnPrePrepare
<1>6. CASE OnPrepare(n, m)
  <2>1. m.blockHash \in Hash /\ m.from \in Node
    BY <1>1, <1>6, MessageFields DEF OnPrepare
  <2>2. prepares' \in [Node -> [Hash -> SUBSET Node]]
    BY <1>6, <2>1 DEF OnPrepare
  <2>3. commits' \in [Node -> [Hash -> SUBSET Node]]
    BY <1>6, <2>1 DEF OnPrepare
  <2>4. prepared' \in [Node -> SUBSET Hash]
    BY <1>6, <2>1 DEF OnPrepare
  <2> QED
    BY <1>2, <1>3, <1>6, <2>2, <2>3, <2>4 DEF OnPrepare
<1>7. CASE OnCommit(n, m)
  <2>1. m.blockHash \in Hash /\ m.from \in Node
    BY <1>1, <1>7, MessageFields DEF OnCommit
  <2>2. commits' \in [Node -> [Hash -> SUBSET Node]]
    BY <1>7, <2>1 DEF OnCommit
  <2>3. committed' \in [Node -> SUBSET Hash]
    <3>1. \/ committed' = [committed EXCEPT ![n] = @ \union {m.blockHash}]
          \/ committed' = committed
      BY <1>7 DEF OnCommit
    <3>2. committed \in [Node -> SUBSET Hash]
      OBVIOUS
    <3> HIDE DEF TypeInv, TypeOK
    <3> QED
      BY <2>1, <3>1, <3>2, PoolUpdate
  <2>4. /\ chain' \in [Node -> Seq(Block)]
        /\ \A k \in Node : chain'[k] # <<>>
        /\ callbacks' \in [Node -> SUBSET Callback]
    <3>1. CASE \E b \in blockPool[n] : AddBlock(n, b, "commit")
      BY <3>1, AddBlockType
    <3>2. CASE UNCHANGED chainVars
      BY <3>2
    <3> QED
      BY <1>7, <3>1, <3>2 DEF OnCommit
  <2> QED
    BY <1>2, <1>3, <1>7, <2>2, <2>3, <2>4 DEF OnCommit
<1> QED
  BY <1>4, <1>5, <1>6, <1>7 DEF Receive

LEMMA TypeSubmit ==
  ASSUME TypeInv, NEW n \in Node, NEW t \in Tx, Submit(n, t)
  PROVE  TypeInv'
<1>1. msgs' \subseteq Message
  BY NewMessages DEF Submit, Broadcast, TypeInv, TypeOK
<1> QED
  BY <1>1 DEF Submit, TypeInv, TypeOK, NotAhead, poolVars, voteVars, chainVars,
              proposalVars, tickVars

LEMMA TypeContinue ==
  ASSUME TypeInv, NEW n \in Node, NEW c \in callbacks[n], Continue(n, c)
  PROVE  TypeInv'
<1> USE DEF TypeInv, TypeOK, poolVars, proposalVars, tickVars
<1>1. c \in Callback /\ c.block \in Block
  BY DEF Callback
<1>2. c.block.hash \in Hash /\ c.block.sequenceId \in 0 .. MaxBlocks
  BY <1>1 DEF Block
<1>3. NotAhead' /\ callbacks' \in [Node -> SUBSET Callback]
  BY DEF Continue, NotAhead
<1>4. CASE AfterAdd(n, c)
  <2>1. pendingCommits' \in [Node -> SUBSET Entry]
    BY <1>4 DEF AfterAdd, WithoutKey
  <2>2. txPool' \in [Node -> SUBSET Tx] /\ blockPool' \in [Node -> SUBSET Block]
    BY <1>4 DEF AfterAdd, WithoutIncluded
  <2>3. /\ prepares' \in [Node -> [Hash -> SUBSET Node]]
        /\ commits' \in [Node -> [Hash -> SUBSET Node]]
    BY <1>2, <1>4 DEF AfterAdd
  <2> QED
    BY <1>3, <2>1, <2>2, <2>3 DEF Continue
<1>5. CASE AfterRefusal(n, c)
  <2>1. [sequenceId |-> c.block.sequenceId, hash |-> c.block.hash] \in Entry
    BY <1>2 DEF Entry
  <2>2. pendingCommits' \in [Node -> SUBSET Entry]
    BY <1>5, <2>1 DEF AfterRefusal, WithoutKey
  <2> QED
    BY <1>3, <1>5, <2>2 DEF Continue, AfterRefusal
<1> QED
  BY <1>4, <1>5 DEF Continue

LEMMA TypeTick ==
  ASSUME TypeInv, NEW n \in Node, StartDrain(n) \/ DrainKey(n) \/ EndTick(n)
  PROVE  TypeInv'
<1> USE DEF TypeInv, TypeOK, poolVars, voteVars, chainVars, proposalVars
<1>1. NotAhead'
  BY DEF StartDrain, DrainKey, EndTick, NotAhead
<1>2. CASE StartDrain(n)
  <2>1. PendingKeys(n) \subseteq 0 .. MaxBlocks
    BY DEF PendingKeys, Entry
  <2> QED
    BY <1>1, <1>2, <2>1 DEF StartDrain
<1>3. CASE DrainKey(n)
  <2>1. /\ chain' \in [Node -> Seq(Block)]
        /\ \A k \in Node : chain'[k] # <<>>
        /\ callbacks' \in [Node -> SUBSET Callback]
    <3>1. CASE \E b \in blockPool[n] : AddBlock(n, b, "drain")
      BY <3>1, AddBlockType
    <3>2. CASE UNCHANGED chainVars
      BY <3>2
    <3> QED
      BY <1>3, <3>1, <3>2 DEF DrainKey, Retryable
  <2>2. keys' \in [Node -> SUBSET (0 .. MaxBlocks)]
    BY <1>3 DEF DrainKey
  <2> QED
    BY <1>1, <1>3, <2>1, <2>2 DEF DrainKey
<1>4. CASE EndTick(n)
  BY <1>1, <1>4 DEF EndTick
<1> QED
  BY <1>2, <1>3, <1>4

LEMMA NewBlockType ==
  ASSUME TypeInv, NEW n \in Node, NEW data \in PendingTransactions(n),
         Propose(n, data)
  PROVE  NewBlock(n, data) \in Block
<1>1. n \in Validator
  BY NodeAssumption DEF Propose, MayPropose
<1>2. data \subseteq Tx
  BY DEF PendingTransactions, TypeInv, TypeOK
<1>3. LatestBlock(n).hash \in Hash /\ LatestBlock(n).sequenceId \in 0 .. MaxBlocks
  BY LatestBlockType DEF TypeInv, Block
<1>4. minted + 1 \in Hash
  BY BoundAssumption DEF Propose, TypeInv, TypeOK, Hash
<1>5. LatestBlock(n).sequenceId + 1 \in 0 .. MaxBlocks
  BY <1>3, BoundAssumption
     DEF Propose, MayPropose, TypeInv, TypeOK, NotAhead, Hash
<1> QED
  BY <1>1, <1>2, <1>3, <1>4, <1>5 DEF NewBlock, Block

LEMMA TypePropose ==
  ASSUME TypeInv, NEW n \in Node, NEW data \in PendingTransactions(n),
         Propose(n, data)
  PROVE  TypeInv'
<1>1. msgs' \subseteq Message
  BY NewBlockType, NewMessages DEF Propose, Broadcast, TypeInv, TypeOK
<1>2. minted' \in Hash
  BY BoundAssumption DEF Propose, TypeInv, TypeOK, Hash
<1>3. proposedSequenceId' \in [Node -> 1 .. MaxBlocks + 1] /\ NotAhead'
  BY BoundAssumption DEF Propose, TypeInv, TypeOK, NotAhead, Hash
<1>4. busy' \in [Node -> BOOLEAN]
  BY DEF Propose, TypeInv, TypeOK
<1> QED
  BY <1>1, <1>2, <1>3, <1>4 DEF Propose, TypeInv, TypeOK, poolVars, voteVars,
                                chainVars

LEMMA TypeExpire ==
  ASSUME TypeInv, NEW n \in Node, Expire(n)
  PROVE  TypeInv'
<1>1. /\ blockPool \in [Node -> SUBSET Block]
      /\ prepared \in [Node -> SUBSET Hash]
      /\ committed \in [Node -> SUBSET Hash]
      /\ pendingCommits \in [Node -> SUBSET Entry]
  BY DEF TypeInv, TypeOK
<1>2. \/ UNCHANGED blockPool
      \/ \E b : blockPool' = [blockPool EXCEPT ![n] = @ \ {b}]
  BY DEF Expire
<1>3. \/ UNCHANGED prepared
      \/ \E h : prepared' = [prepared EXCEPT ![n] = @ \ {h}]
  BY DEF Expire
<1>4. \/ UNCHANGED committed
      \/ \E h : committed' = [committed EXCEPT ![n] = @ \ {h}]
  BY DEF Expire
<1>5. \/ UNCHANGED pendingCommits
      \/ \E e : pendingCommits' = [pendingCommits EXCEPT ![n] = @ \ {e}]
  BY DEF Expire
<1>6. blockPool' \in [Node -> SUBSET Block]
  BY <1>1, <1>2, PoolUpdate
<1>7. prepared' \in [Node -> SUBSET Hash]
  BY <1>1, <1>3, PoolUpdate
<1>8. committed' \in [Node -> SUBSET Hash]
  BY <1>1, <1>4, PoolUpdate
<1>9. pendingCommits' \in [Node -> SUBSET Entry]
  BY <1>1, <1>5, PoolUpdate
<1> QED
  BY <1>6, <1>7, <1>8, <1>9
     DEF Expire, TypeInv, TypeOK, NotAhead, chainVars, proposalVars, tickVars

LEMMA TypeRestart ==
  ASSUME TypeInv, NEW n \in Node, Restart(n)
  PROVE  TypeInv'
<1>1. <<Genesis>> \in Seq(Block) /\ <<Genesis>> # <<>>
  BY GenesisType
<1>2. chain' \in [Node -> Seq(Block)] /\ \A k \in Node : chain'[k] # <<>>
  BY <1>1 DEF Restart, TypeInv, TypeOK
<1>3. proposedSequenceId' \in [Node -> 1 .. MaxBlocks + 1] /\ NotAhead'
  BY BoundAssumption DEF Restart, TypeInv, TypeOK, NotAhead, Hash
<1> QED
  BY <1>2, <1>3 DEF Restart, TypeInv, TypeOK

LEMMA TypeNext == TypeInv /\ [Next]_vars => TypeInv'
<1> SUFFICES ASSUME TypeInv, [Next]_vars PROVE TypeInv'
  OBVIOUS
<1>1. CASE UNCHANGED vars
  BY <1>1 DEF vars, poolVars, voteVars, chainVars, proposalVars, tickVars,
              TypeInv, TypeOK, NotAhead
<1>2. CASE Next
  BY <1>2, NodeAssumption, TypeReceive, TypeSubmit, TypeContinue, TypeTick,
     TypePropose, TypeExpire, TypeRestart DEF Next
<1> QED
  BY <1>1, <1>2

LEMMA TypeInvariant == Spec => []TypeInv
  BY TypeInit, TypeNext, PTL DEF Spec

\* The state of the replicas always has its declared shape.
THEOREM TypeCorrect == Spec => []TypeOK
<1>1. TypeInv => TypeOK
  BY DEF TypeInv
<1> QED
  BY <1>1, TypeInvariant, PTL
-----------------------------------------------------------------------------
(***************************************************************************)
(* Agreement.  A node adds only proposed blocks, each at the height its    *)
(* sequence id gives, and there is one proposal per sequence id: the       *)
(* proposer signs a block only for the id in proposedSequenceId, which     *)
(* then moves on.  Neither votes nor quorums are needed for this, and what *)
(* the caches forget does not matter; that the proposer never restarts     *)
(* does, since a restart takes proposedSequenceId back to 1.               *)
(***************************************************************************)
ProposalInv ==
  /\ minted = 0 => Proposals = {}
  /\ Proposer \in Node => proposedSequenceId[Proposer] = minted + 1
  /\ Proposer \notin Node => minted = 0
  /\ \A b \in Proposals : b.sequenceId \in 1 .. minted
  /\ \A i \in 1 .. minted : \E b \in Proposals : b.sequenceId = i
  /\ \A b, d \in Proposals : b.sequenceId = d.sequenceId => b = d

PooledAreProposed == \A n \in Node : blockPool[n] \subseteq Proposals

ChainInv ==
  \A n \in Node :
    /\ chain[n][1] = Genesis
    /\ \A i \in 2 .. Len(chain[n]) :
         chain[n][i] \in Proposals /\ chain[n][i].sequenceId = i - 1

AgreementInv == TypeInv /\ ProposalInv /\ PooledAreProposed /\ ChainInv

LEMMA ProposalsType == TypeOK => Proposals \subseteq Block
<1> SUFFICES ASSUME TypeOK, NEW b \in Proposals PROVE b \in Block
  OBVIOUS
<1>1. PICK m \in msgs : m.type = "pre_prepare" /\ m.block = b
  BY DEF Proposals
<1>2. m \in Message
  BY DEF TypeOK
<1> QED
  BY <1>1, <1>2, MessageFields

\* The height of a chain is the sequence id of its last block, plus one.
LEMMA LatestBlockHeight ==
  ASSUME TypeOK, ChainInv, NEW n \in Node
  PROVE  /\ Len(chain[n]) \in Nat /\ Len(chain[n]) >= 1
         /\ LatestBlock(n).sequenceId = Len(chain[n]) - 1
<1> DEFINE k == Len(chain[n])
<1>1. k \in Nat /\ k >= 1
  BY EmptySeq DEF TypeOK
<1>2. CASE k = 1
  BY <1>2 DEF ChainInv, LatestBlock, Genesis
<1>3. CASE k >= 2
  <2>1. k \in 2 .. k
    BY <1>1, <1>3
  <2>2. chain[n][k].sequenceId = k - 1
    BY <2>1 DEF ChainInv
  <2> QED
    BY <1>1, <2>2 DEF LatestBlock
<1>4. \A j \in Nat : j >= 1 => j = 1 \/ j >= 2
  OBVIOUS
<1>5. k = 1 \/ k >= 2
  BY <1>1, <1>4
<1> QED
  BY <1>2, <1>3, <1>5

\* Only a proposal adds to the proposals.
LEMMA ReceiveProposals ==
  ASSUME NEW n \in Node, NEW m \in msgs, Receive(n, m)
  PROVE  Proposals' = Proposals
<1>1. \A v \in OwnVotes(n, m) : v.type # "pre_prepare"
  BY DEF OwnVotes, PrepareMsg, CommitMsg
<1>2. msgs' = msgs \union OwnVotes(n, m)
  BY DEF Receive, Broadcast
<1> QED
  BY <1>1, <1>2 DEF Proposals

LEMMA SubmitProposals ==
  ASSUME NEW n \in Node, NEW t \in Tx, Submit(n, t)
  PROVE  Proposals' = Proposals
  BY DEF Submit, Broadcast, Proposals, TxMsg

LEMMA ProposeProposals ==
  ASSUME NEW n \in Node, NEW data, Propose(n, data)
  PROVE  Proposals' = Proposals \union {NewBlock(n, data)}
<1> DEFINE b == NewBlock(n, data)
<1>1. msgs' = msgs \union {PrePrepareMsg(b)}
  BY DEF Propose, Broadcast
<1>2. PrePrepareMsg(b).type = "pre_prepare" /\ PrePrepareMsg(b).block = b
  BY DEF PrePrepareMsg
<1> HIDE DEF b
<1>3. Proposals' = Proposals \union {b}
  BY <1>1, <1>2 DEF Proposals
<1> QED
  BY <1>3 DEF b

\* A block that AddBlock appends is a proposal, and has the next sequence id.
LEMMA AddBlockChain ==
  ASSUME TypeOK, ChainInv, PooledAreProposed, NEW n \in Node,
         NEW b \in blockPool[n], NEW by, AddBlock(n, b, by)
  PROVE  \/ UNCHANGED chain
         \/ /\ chain' = [chain EXCEPT ![n] = Append(@, b)]
            /\ b \in Proposals
            /\ b.sequenceId = Len(chain[n])
<1>1. LatestBlock(n).sequenceId = Len(chain[n]) - 1 /\ Len(chain[n]) \in Nat
  BY LatestBlockHeight
<1> QED
  BY <1>1 DEF AddBlock, IsValidBlock, PooledAreProposed

\* The ways a step other than a restart changes the chains.
Appends ==
  \E n \in Node, b \in Proposals :
    /\ b.sequenceId = Len(chain[n])
    /\ chain' = [chain EXCEPT ![n] = Append(@, b)]

LEMMA AppendKeepsChainInv ==
  ASSUME TypeOK, ChainInv, Appends, Proposals' = Proposals
  PROVE  ChainInv'
<1>1. PICK n \in Node, b \in Proposals :
        /\ b.sequenceId = Len(chain[n])
        /\ chain' = [chain EXCEPT ![n] = Append(@, b)]
  BY DEF Appends
<1>2. chain[n] \in Seq(Block) /\ Len(chain[n]) \in Nat \ {0}
  BY EmptySeq DEF TypeOK
<1>3. b \in Block
  BY ProposalsType
<1>4. chain'[n] = Append(chain[n], b) /\ \A k \in Node \ {n} : chain'[k] = chain[k]
  BY <1>1 DEF TypeOK
<1>5. /\ Len(chain'[n]) = Len(chain[n]) + 1
      /\ \A i \in 1 .. Len(chain[n]) : chain'[n][i] = chain[n][i]
      /\ chain'[n][Len(chain[n]) + 1] = b
  BY <1>2, <1>3, <1>4
<1>6. chain'[n][1] = Genesis
  BY <1>2, <1>5 DEF ChainInv
<1>7. ASSUME NEW i \in 2 .. Len(chain'[n])
      PROVE  chain'[n][i] \in Proposals /\ chain'[n][i].sequenceId = i - 1
  <2>1. CASE i <= Len(chain[n])
    BY <1>2, <1>5, <1>7, <2>1 DEF ChainInv
  <2>2. CASE i = Len(chain[n]) + 1
    BY <1>1, <1>2, <1>5, <2>2
  <2> QED
    BY <1>2, <1>5, <1>7, <2>1, <2>2
<1>8. ASSUME NEW k \in Node \ {n}, NEW i \in 2 .. Len(chain'[k])
      PROVE  chain'[k][i] \in Proposals /\ chain'[k][i].sequenceId = i - 1
  BY <1>4, <1>8 DEF ChainInv
<1>9. ASSUME NEW k \in Node \ {n}
      PROVE  chain'[k][1] = Genesis
  BY <1>4, <1>9 DEF ChainInv
<1> QED
  BY <1>6, <1>7, <1>8, <1>9 DEF ChainInv

(***************************************************************************)
(* What each step does to the ledger: it extends it, appends one of its    *)
(* blocks to a chain, resets a chain, or leaves both alone.                *)
(***************************************************************************)
Quiet == UNCHANGED <<minted, chain>> /\ Proposals' = Proposals

Step ==
  \/ Quiet /\ UNCHANGED proposedSequenceId
  \/ Appends /\ UNCHANGED <<minted, proposedSequenceId>> /\ Proposals' = Proposals
  \/ \E n \in Restartable :
       /\ chain' = [chain EXCEPT ![n] = <<Genesis>>]
       /\ proposedSequenceId' = [proposedSequenceId EXCEPT ![n] = 1]
       /\ minted' = minted /\ Proposals' = Proposals
  \/ \E n \in Node : \E data \in PendingTransactions(n) :
       Propose(n, data) /\ UNCHANGED chain

LEMMA NextStep ==
  ASSUME AgreementInv, [Next]_vars
  PROVE  Step
<1> USE DEF Step, Quiet
<1>1. CASE UNCHANGED vars
  BY <1>1 DEF vars, chainVars, proposalVars, Proposals
<1>2. ASSUME NEW n \in Node, NEW m \in msgs, Receive(n, m)
      PROVE  Step
  <2>1. Proposals' = Proposals /\ UNCHANGED <<minted, proposedSequenceId>>
    BY <1>2, ReceiveProposals DEF Receive, proposalVars
  <2>2. \/ UNCHANGED chain
        \/ \E b \in blockPool[n] : AddBlock(n, b, "commit")
    BY <1>2 DEF Receive, OnTransaction, OnPrePrepare, OnPrepare, OnCommit,
                chainVars
  <2>3. UNCHANGED chain \/ Appends
    BY <2>2, AddBlockChain DEF AgreementInv, TypeInv, Appends
  <2> QED
    BY <2>1, <2>3
<1>3. ASSUME NEW n \in Node, NEW t \in Tx, Submit(n, t)
      PROVE  Step
  BY <1>3, SubmitProposals DEF Submit, chainVars, proposalVars
<1>4. ASSUME NEW n \in Node, NEW c \in callbacks[n], Continue(n, c)
      PROVE  Step
  BY <1>4 DEF Continue, proposalVars, Proposals
<1>5. ASSUME NEW n \in Node, StartDrain(n) \/ EndTick(n)
      PROVE  Step
  BY <1>5 DEF StartDrain, EndTick, chainVars, proposalVars, Proposals
<1>6. ASSUME NEW n \in Node, DrainKey(n)
      PROVE  Step
  <2>1. Proposals' = Proposals /\ UNCHANGED <<minted, proposedSequenceId>>
    BY <1>6 DEF DrainKey, proposalVars, Proposals
  <2>2. \/ UNCHANGED chain
        \/ \E b \in blockPool[n] : AddBlock(n, b, "drain")
    BY <1>6 DEF DrainKey, Retryable, chainVars
  <2>3. UNCHANGED chain \/ Appends
    BY <2>2, AddBlockChain DEF AgreementInv, TypeInv, Appends
  <2> QED
    BY <2>1, <2>3
<1>7. ASSUME NEW n \in Node, NEW data \in PendingTransactions(n),
             Propose(n, data)
      PROVE  Step
  BY <1>7 DEF Propose, chainVars
<1>8. ASSUME NEW n \in Node, Expire(n)
      PROVE  Step
  BY <1>8 DEF Expire, chainVars, proposalVars, Proposals
<1>9. ASSUME NEW n \in Restartable, Restart(n)
      PROVE  Step
  BY <1>9 DEF Restart, Proposals
<1> QED
  BY <1>1, <1>2, <1>3, <1>4, <1>5, <1>6, <1>7, <1>8, <1>9, NodeAssumption
     DEF Next

\* The pools hold proposals only: a block enters one from a message.
LEMMA PooledNext ==
  ASSUME AgreementInv, [Next]_vars
  PROVE  PooledAreProposed'
<1>1. Proposals \subseteq Proposals'
  BY NextStep, ProposeProposals DEF Step, Quiet
<1>2. \A n \in Node : blockPool'[n] \subseteq blockPool[n] \union Proposals
  <2>1. ASSUME NEW n \in Node, NEW m \in msgs, Receive(n, m)
        PROVE  \A k \in Node : blockPool'[k] \subseteq blockPool[k] \union Proposals
    <3>1. CASE OnPrePrepare(n, m)
      <4>1. m.block \in Proposals
        BY <3>1 DEF OnPrePrepare, Proposals
      <4> QED
        BY <3>1, <4>1 DEF OnPrePrepare, AgreementInv, TypeInv, TypeOK
    <3>2. CASE OnTransaction(n, m) \/ OnPrepare(n, m) \/ OnCommit(n, m)
      BY <3>2 DEF OnTransaction, OnPrepare, OnCommit, poolVars
    <3> QED
      BY <2>1, <3>1, <3>2 DEF Receive
  <2>2. ASSUME NEW n \in Node, NEW c \in callbacks[n], Continue(n, c)
        PROVE  \A k \in Node : blockPool'[k] \subseteq blockPool[k]
    <3>1. CASE AfterAdd(n, c)
      BY <3>1 DEF AfterAdd, AgreementInv, TypeInv, TypeOK
    <3>2. CASE AfterRefusal(n, c)
      BY <3>2 DEF AfterRefusal, poolVars
    <3> QED
      BY <2>2, <3>1, <3>2 DEF Continue
  <2>3. ASSUME NEW n \in Node, Expire(n)
        PROVE  \A k \in Node : blockPool'[k] \subseteq blockPool[k]
    BY <2>3 DEF Expire, AgreementInv, TypeInv, TypeOK
  <2>4. ASSUME NEW n \in Node, Restart(n)
        PROVE  \A k \in Node : blockPool'[k] \subseteq blockPool[k]
    BY <2>4 DEF Restart, AgreementInv, TypeInv, TypeOK
  <2>5. ASSUME NEW n \in Node,
               \/ \E t \in Tx : Submit(n, t)
               \/ StartDrain(n) \/ DrainKey(n) \/ EndTick(n)
               \/ \E data \in PendingTransactions(n) : Propose(n, data)
        PROVE  UNCHANGED blockPool
    BY <2>5 DEF Submit, StartDrain, DrainKey, EndTick, Propose, poolVars
  <2>6. CASE UNCHANGED vars
    BY <2>6 DEF vars, poolVars
  <2> QED
    BY <2>1, <2>2, <2>3, <2>4, <2>5, <2>6, NodeAssumption DEF Next
<1> QED
  BY <1>1, <1>2 DEF AgreementInv, PooledAreProposed

LEMMA AgreementInit == Init => AgreementInv
<1> SUFFICES ASSUME Init PROVE AgreementInv
  OBVIOUS
<1>1. Proposals = {}
  BY DEF Init, Proposals
<1>2. ProposalInv
  BY <1>1 DEF Init, ProposalInv
<1>3. ChainInv
  BY DEF Init, ChainInv
<1> QED
  BY <1>1, <1>2, <1>3, TypeInit DEF Init, AgreementInv, PooledAreProposed

LEMMA AgreementNext ==
  ASSUME Proposer \notin Restartable
  PROVE  AgreementInv /\ [Next]_vars => AgreementInv'
<1> SUFFICES ASSUME AgreementInv, [Next]_vars PROVE AgreementInv'
  OBVIOUS
<1> USE DEF AgreementInv
<1>1. TypeInv' /\ TypeOK
  BY TypeNext DEF TypeInv
<1>2. PooledAreProposed'
  BY PooledNext
<1>3. CASE Quiet /\ UNCHANGED proposedSequenceId
  BY <1>1, <1>2, <1>3 DEF Quiet, ProposalInv, ChainInv
<1>4. CASE /\ Appends /\ UNCHANGED <<minted, proposedSequenceId>>
           /\ Proposals' = Proposals
  BY <1>1, <1>2, <1>4, AppendKeepsChainInv DEF ProposalInv
<1>5. ASSUME NEW n \in Restartable,
             chain' = [chain EXCEPT ![n] = <<Genesis>>],
             proposedSequenceId' = [proposedSequenceId EXCEPT ![n] = 1],
             minted' = minted, Proposals' = Proposals
      PROVE  AgreementInv'
  <2>1. ProposalInv'
    BY <1>1, <1>5 DEF ProposalInv, TypeOK
  <2>2. \A k \in Node : chain'[k] = IF k = n THEN <<Genesis>> ELSE chain[k]
    BY <1>1, <1>5 DEF TypeOK
  <2>3. <<Genesis>>[1] = Genesis /\ 2 .. Len(<<Genesis>>) = {}
    OBVIOUS
  <2>4. ChainInv'
    BY <1>5, <2>2, <2>3 DEF ChainInv
  <2> QED
    BY <1>1, <1>2, <2>1, <2>4
<1>6. ASSUME NEW n \in Node, NEW data \in PendingTransactions(n),
             Propose(n, data), UNCHANGED chain
      PROVE  AgreementInv'
  <2> DEFINE b == NewBlock(n, data)
  <2>1. n = Proposer /\ minted' = minted + 1 /\ minted \in Nat
    BY <1>1, <1>6, BoundAssumption DEF Propose, MayPropose, TypeOK, Hash
  <2>2. b.sequenceId = minted + 1
    BY <1>6, <2>1 DEF Propose, MayPropose, ProposalInv, NewBlock
  <2>3. Proposals' = Proposals \union {b}
    BY <1>6, ProposeProposals
  <2>4. proposedSequenceId'[Proposer] = minted' + 1
    BY <1>1, <1>6, <2>1 DEF Propose, ProposalInv, TypeOK
  <2> HIDE DEF b
  <2>5. ProposalInv'
    BY <2>1, <2>2, <2>3, <2>4 DEF ProposalInv
  <2>6. ChainInv'
    BY <1>6, <2>3 DEF ChainInv
  <2> QED
    BY <1>1, <1>2, <2>5, <2>6
<1> QED
  BY <1>3, <1>4, <1>5, <1>6, NextStep DEF Step

LEMMA AgreementInvariant ==
  ASSUME Proposer \notin Restartable
  PROVE  Spec => []AgreementInv
  BY AgreementInit, AgreementNext, PTL DEF Spec

LEMMA AgreementFollows == AgreementInv => Agreement
<1> SUFFICES ASSUME AgreementInv, NEW m \in Node, NEW n \in Node,
                    NEW i \in DOMAIN chain[m] \intersect DOMAIN chain[n]
             PROVE  chain[m][i] = chain[n][i]
  BY DEF Agreement
<1>1. i \in 1 .. Len(chain[m]) /\ i \in 1 .. Len(chain[n])
  BY DEF AgreementInv, TypeInv, TypeOK
<1>2. CASE i = 1
  BY <1>2 DEF AgreementInv, ChainInv
<1>3. CASE i # 1
  <2>1. i \in 2 .. Len(chain[m]) /\ i \in 2 .. Len(chain[n])
    BY <1>1, <1>3
  <2> QED
    BY <2>1 DEF AgreementInv, ChainInv, ProposalInv
<1> QED
  BY <1>2, <1>3

\* As long as the proposer does not restart, any two nodes hold the same block
\* at the same height, for any number of nodes, faults of the network and
\* backups, and whatever MIN_APPROVALS is.
THEOREM AgreementHolds ==
  ASSUME Proposer \notin Restartable
  PROVE  Spec => []Agreement
  BY AgreementInvariant, AgreementFollows, PTL
-----------------------------------------------------------------------------
(***************************************************************************)
(* The replicas implement ReplicatedLedger.                                *)
(***************************************************************************)

\* One block per sequence id, up to some height.
OnePerHeight(blocks, height) ==
  /\ height \in Nat
  /\ \A i \in 1 .. height : \E b \in blocks : b.sequenceId = i
  /\ \A b, d \in blocks : b.sequenceId = d.sequenceId => b = d

LEMMA LedgerEntries ==
  ASSUME NEW blocks, NEW height, OnePerHeight(blocks, height),
         NEW i \in 2 .. height + 1
  PROVE  /\ LedgerOf(blocks, height)[i] \in blocks
         /\ LedgerOf(blocks, height)[i].sequenceId = i - 1
         /\ \A b \in blocks :
              b.sequenceId = i - 1 => LedgerOf(blocks, height)[i] = b
<1>1. i \in 1 .. height + 1 /\ i # 1 /\ i - 1 \in 1 .. height
  BY DEF OnePerHeight
<1>2. LedgerOf(blocks, height)[i] = CHOOSE b \in blocks : b.sequenceId = i - 1
  BY <1>1 DEF LedgerOf
<1>3. \E b \in blocks : b.sequenceId = i - 1
  BY <1>1 DEF OnePerHeight
<1> QED
  BY <1>2, <1>3 DEF OnePerHeight

LEMMA LedgerType ==
  ASSUME NEW blocks \in SUBSET Block, NEW height, OnePerHeight(blocks, height)
  PROVE  /\ LedgerOf(blocks, height) \in Seq(Block)
         /\ Len(LedgerOf(blocks, height)) = height + 1
         /\ LedgerOf(blocks, height)[1] = Genesis
<1> DEFINE ledger == LedgerOf(blocks, height)
<1>1. height \in Nat /\ 1 \in 1 .. height + 1
  BY DEF OnePerHeight
<1>2. ledger[1] = Genesis
  BY <1>1 DEF LedgerOf
<1>3. \A i \in 1 .. height + 1 : ledger[i] \in Block
  <2> SUFFICES ASSUME NEW i \in 1 .. height + 1 PROVE ledger[i] \in Block
    OBVIOUS
  <2>1. CASE i = 1
    BY <1>2, <2>1, GenesisType
  <2>2. CASE i # 1
    <3>1. i \in 2 .. height + 1
      BY <1>1, <2>2
    <3> QED
      BY <3>1, LedgerEntries
  <2> QED
    BY <2>1, <2>2
<1>4. ledger \in [1 .. height + 1 -> Block]
  BY <1>3 DEF LedgerOf
<1> HIDE DEF ledger
<1>5. ledger \in Seq(Block) /\ Len(ledger) = height + 1
  BY <1>1, <1>4
<1> QED
  BY <1>2, <1>5 DEF ledger

LEMMA ProposalsOnePerHeight ==
  ASSUME TypeOK, ProposalInv
  PROVE  OnePerHeight(Proposals, minted) /\ Proposals \subseteq Block
  BY ProposalsType, BoundAssumption DEF OnePerHeight, ProposalInv, TypeOK, Hash

LEMMA LedgerInit == Init => L!Init
<1> SUFFICES ASSUME Init PROVE L!Init
  OBVIOUS
<1>1. TypeOK /\ ProposalInv
  BY AgreementInit DEF AgreementInv, TypeInv
<1>2. /\ Ledger \in Seq(Block) /\ Len(Ledger) = minted + 1
      /\ Ledger[1] = Genesis
  BY <1>1, LedgerType, ProposalsOnePerHeight DEF Ledger
<1>3. minted + 1 = 1
  BY DEF Init
<1>4. Ledger = <<Genesis>>
  BY <1>2, <1>3, GenesisType
<1> QED
  BY <1>4 DEF Init, L!Init

LEMMA LedgerStep ==
  ASSUME AgreementInv, AgreementInv', Step
  PROVE  [L!Next]_(L!ledgerVars)
<1> USE DEF L!Next, L!ledgerVars
<1>1. /\ OnePerHeight(Proposals, minted) /\ Proposals \subseteq Block
      /\ Ledger \in Seq(Block) /\ Len(Ledger) = minted + 1
      /\ Ledger[1] = Genesis /\ minted \in Nat
  BY ProposalsOnePerHeight, LedgerType
     DEF Ledger, AgreementInv, TypeInv, OnePerHeight
<1>2. CASE Quiet
  BY <1>2 DEF Quiet, Ledger
<1>3. CASE Appends /\ minted' = minted /\ Proposals' = Proposals
  <2>1. PICK n \in Node, b \in Proposals :
          /\ b.sequenceId = Len(chain[n])
          /\ chain' = [chain EXCEPT ![n] = Append(@, b)]
    BY <1>3 DEF Appends
  <2>2. Len(chain[n]) \in 1 .. minted
    BY <2>1 DEF AgreementInv, ProposalInv
  <2>3. Ledger[Len(chain[n]) + 1] = b
    <3>1. Len(chain[n]) + 1 \in 2 .. minted + 1
      BY <1>1, <2>2
    <3>2. b.sequenceId = (Len(chain[n]) + 1) - 1
      BY <2>1, <2>2
    <3> QED
      BY <1>1, <3>1, <3>2, LedgerEntries DEF Ledger
  <2>4. Len(chain[n]) < Len(Ledger)
    BY <1>1, <2>2
  <2>5. L!Adopt(n)
    BY <1>3, <2>1, <2>3, <2>4 DEF L!Adopt, Ledger
  <2> QED
    BY <2>5
<1>4. ASSUME NEW n \in Restartable,
             chain' = [chain EXCEPT ![n] = <<Genesis>>],
             minted' = minted, Proposals' = Proposals
      PROVE  L!Next
  BY <1>4 DEF L!Reset, Ledger
<1>5. ASSUME NEW n \in Node, NEW data \in PendingTransactions(n),
             Propose(n, data), UNCHANGED chain
      PROVE  L!Next
  <2> DEFINE b == NewBlock(n, data)
  <2>1. n = Proposer /\ minted' = minted + 1
    BY <1>5 DEF Propose, MayPropose
  <2>2. LatestBlock(n).sequenceId = minted
    <3>1. LatestBlock(n).sequenceId + 1 = minted + 1
      BY <1>5, <2>1 DEF Propose, MayPropose, AgreementInv, ProposalInv
    <3>2. LatestBlock(n).sequenceId \in Nat
      BY LatestBlockType DEF AgreementInv, TypeInv, Block
    <3> QED
      BY <1>1, <3>1, <3>2
  <2>3. chain[n] \in Seq(Block) /\ Len(chain[n]) = minted + 1
    BY <1>1, <2>2, LatestBlockHeight DEF AgreementInv, TypeInv, TypeOK
  <2>4. chain[n] = Ledger
    <3>1. ASSUME NEW i \in 1 .. Len(chain[n])
          PROVE  chain[n][i] = Ledger[i]
      <4>1. CASE i = 1
        BY <1>1, <4>1 DEF AgreementInv, ChainInv
      <4>2. CASE i # 1
        <5>1. i \in 2 .. Len(chain[n]) /\ i \in 2 .. minted + 1
          BY <1>1, <2>3, <4>2
        <5>2. chain[n][i] \in Proposals /\ chain[n][i].sequenceId = i - 1
          BY <5>1 DEF AgreementInv, ChainInv
        <5> QED
          BY <1>1, <5>1, <5>2, LedgerEntries DEF Ledger
      <4> QED
        BY <4>1, <4>2
    <3> QED
      BY <1>1, <2>3, <3>1, SeqEqual
  <2>5. /\ b \in Block
        /\ b.lastHash = Ledger[Len(Ledger)].hash
        /\ b.sequenceId = Ledger[Len(Ledger)].sequenceId + 1
    BY <1>5, <2>4, NewBlockType DEF NewBlock, LatestBlock, AgreementInv
  <2>6. b.sequenceId = minted + 1
    BY <2>2 DEF NewBlock
  <2> HIDE DEF b
  <2>7. Proposals' = Proposals \union {b}
    BY <1>5, ProposeProposals DEF b
  <2>8. OnePerHeight(Proposals', minted') /\ Proposals' \subseteq Block
    BY <1>1, <2>1, <2>5, <2>7 DEF OnePerHeight, AgreementInv, ProposalInv
  <2>9. Ledger' = Append(Ledger, b)
    <3>1. /\ Ledger' \in Seq(Block) /\ Len(Ledger') = minted + 2
          /\ Ledger'[1] = Genesis
      BY <1>1, <2>1, <2>8, LedgerType DEF Ledger
    <3>2. Append(Ledger, b) \in Seq(Block) /\ Len(Append(Ledger, b)) = minted + 2
      BY <1>1, <2>5
    <3>3. ASSUME NEW i \in 1 .. minted + 2
          PROVE  Ledger'[i] = Append(Ledger, b)[i]
      <4>1. CASE i = 1
        BY <1>1, <3>1, <4>1
      <4>2. CASE i \in 2 .. minted + 1
        <5>1. Ledger[i] \in Proposals /\ Ledger[i].sequenceId = i - 1
          BY <1>1, <4>2, LedgerEntries DEF Ledger
        <5>2. Ledger'[i] = Ledger[i]
          BY <1>1, <2>1, <2>7, <2>8, <4>2, <5>1, LedgerEntries DEF Ledger
        <5>3. Append(Ledger, b)[i] = Ledger[i]
          BY <1>1, <2>5, <4>2
        <5> QED
          BY <5>2, <5>3
      <4>3. CASE i = minted + 2
        <5>1. i \in 2 .. minted' + 1 /\ b.sequenceId = i - 1
          BY <1>1, <2>1, <2>6, <4>3
        <5>2. Ledger'[i] = b
          BY <2>7, <2>8, <5>1, LedgerEntries DEF Ledger
        <5>3. Append(Ledger, b)[i] = b
          BY <1>1, <2>5, <4>3
        <5> QED
          BY <5>2, <5>3
      <4> QED
        BY <1>1, <4>1, <4>2, <4>3
    <3> QED
      BY <3>1, <3>2, <3>3, SeqEqual
  <2>10. L!Extend
    BY <1>5, <2>1, <2>4, <2>5, <2>9 DEF L!Extend
  <2> QED
    BY <2>10
<1> QED
  BY <1>2, <1>3, <1>4, <1>5 DEF Step

\* The replicas implement the single growing ledger: a proposal extends it, an
\* added block moves one chain one block along it.
THEOREM ImplementsLedger ==
  ASSUME Proposer \notin Restartable
  PROVE  Spec => LedgerSpec
<1>1. AgreementInv /\ AgreementInv' /\ [Next]_vars => [L!Next]_(L!ledgerVars)
  BY NextStep, LedgerStep
<1> QED
  BY <1>1, LedgerInit, AgreementInvariant, PTL DEF Spec, LedgerSpec, L!Spec
=============================================================================
