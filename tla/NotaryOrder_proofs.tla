------------------------- MODULE NotaryOrder_proofs -------------------------
(***************************************************************************)
(* Nothing arrives too early.  Every node relays what it accepts before it *)
(* votes, and a socket is FIFO, so whatever a node has counted is known at *)
(* the other end of each of its sockets, or on its way there ahead of the  *)
(* message that rests on it.  No vote reaches a pool that is not ready for *)
(* it, no commit completes before that of the block below, and when        *)
(* nothing is under way any more every block proposed has been added.      *)
(***************************************************************************)
EXTENDS NotaryMesh_proofs, NotaryPools_proofs

(***************************************************************************)
(* The setting: the sockets there are, whichever they join, are open when  *)
(* the proposer first ticks; no cache entry expires while its block is     *)
(* under way; nobody is started again; and every key that runs is listed.  *)
(***************************************************************************)
SteadyMesh ==
  /\ Up = Link
  /\ Expirable = {} /\ Restartable = {}
  /\ Node \subseteq Validator

(***************************************************************************)
(* The two phases of voting have the same pools and the same rules.        *)
(***************************************************************************)
Phase == {"prepare", "commit"}
Counted(p, n, h) == IF p = "prepare" THEN prepares[n][h] ELSE commits[n][h]
Complete(p, n) == IF p = "prepare" THEN prepared[n] ELSE committed[n]
Vote(p, h, v) == [type |-> p, blockHash |-> h, from |-> v]

\* n has accepted the block.
Ready(n, h) == prepares[n][h] # {} \/ h \in prepared[n]

(***************************************************************************)
(* What n counts and what its pools hold.                                  *)
(***************************************************************************)
OwnVoteFirst(n) ==
  \A p \in Phase, h \in Hash : Counted(p, n, h) # {} => n \in Counted(p, n, h)

\* A quorum with a vote from elsewhere has been noticed.
NoticesQuorum(n) ==
  \A p \in Phase, h \in Hash :
    Counted(p, n, h) \ {n} # {} /\ ThresholdReached(Counted(p, n, h)) =>
      h \in Complete(p, n)

OpensCommits(n) ==
  \A h \in prepared[n] : commits[n][h] # {} \/ h \in committed[n]

PoolsWhatIsReady(n) == \A b \in blockPool[n] : Ready(n, b.hash)

LocalInv ==
  \A n \in Steady :
    /\ OwnVoteFirst(n) /\ NoticesQuorum(n)
    /\ OpensCommits(n) /\ PoolsWhatIsReady(n)

LEMMA LocalInit == Init => LocalInv
<1> SUFFICES ASSUME Init PROVE LocalInv
  OBVIOUS
<1>1. \A n \in Node : \A p \in Phase, h \in Hash : Counted(p, n, h) = {}
  BY DEF Init, Counted
<1>2. \A n \in Node : prepared[n] = {} /\ blockPool[n] = {}
  BY DEF Init
<1> QED
  BY <1>1, <1>2 DEF LocalInv, OwnVoteFirst, NoticesQuorum, OpensCommits,
     PoolsWhatIsReady, Steady

LEMMA LocalNext ==
  ASSUME ZombieInv, LocalInv, [Next]_vars
  PROVE  LocalInv'
<1> SUFFICES ASSUME NEW n \in Steady
             PROVE  /\ OwnVoteFirst(n)' /\ NoticesQuorum(n)'
                    /\ OpensCommits(n)' /\ PoolsWhatIsReady(n)'
  BY DEF LocalInv
<1> USE DEF OwnVoteFirst, NoticesQuorum, OpensCommits, PoolsWhatIsReady,
            Phase, Counted, Complete, Ready
<1>1. /\ n \in Node /\ n \notin Expirable /\ PoolStep(n)
      /\ blockPool[n] \subseteq Block /\ prepared[n] \subseteq Hash
      /\ OwnVoteFirst(n) /\ NoticesQuorum(n)
      /\ OpensCommits(n) /\ PoolsWhatIsReady(n)
      /\ \A b \in Block : b.hash \in Hash
  BY EveryStepIsPoolStep
     DEF Steady, ZombieInv, TypeInv, TypeOK, LocalInv, Block
<1>2. CASE UNCHANGED <<blockPool[n], prepares[n], prepared[n], commits[n],
                       committed[n]>>
  BY <1>1, <1>2
<1>3. ASSUME NEW b \in Block, PoolsBlock(n, b)
      PROVE  /\ OwnVoteFirst(n)' /\ NoticesQuorum(n)'
             /\ OpensCommits(n)' /\ PoolsWhatIsReady(n)'
  BY <1>1, <1>3 DEF PoolsBlock
<1>4. ASSUME NEW h \in Hash, NEW v \in Node, CountsPrepare(n, h, v)
      PROVE  /\ OwnVoteFirst(n)' /\ NoticesQuorum(n)'
             /\ OpensCommits(n)' /\ PoolsWhatIsReady(n)'
  BY <1>1, <1>4 DEF CountsPrepare
<1>5. ASSUME NEW h \in Hash, NEW v \in Node, CountsCommit(n, h, v)
      PROVE  /\ OwnVoteFirst(n)' /\ NoticesQuorum(n)'
             /\ OpensCommits(n)' /\ PoolsWhatIsReady(n)'
  BY <1>1, <1>5 DEF CountsCommit
<1>6. ASSUME NEW c \in callbacks[n], CleansUp(n, c)
      PROVE  /\ OwnVoteFirst(n)' /\ NoticesQuorum(n)'
             /\ OpensCommits(n)' /\ PoolsWhatIsReady(n)'
  <2>1. c.block.hash \in committed[n]
    BY DEF ZombieInv, CompletedFirst, Completed
  <2> QED
    BY <1>1, <1>6, <2>1 DEF CleansUp
<1>7. CASE StartsAgain(n)
  BY <1>7 DEF StartsAgain
<1> QED
  BY <1>1, <1>2, <1>3, <1>4, <1>5, <1>6, <1>7
     DEF PoolStep, SettlesBlocks, Pools, PutsOff, Retries, Forgets

(***************************************************************************)
(* A block's hash is its height.                                           *)
(***************************************************************************)
HashIsHeight ==
  \A b \in Proposals :
    /\ b.hash = b.sequenceId
    /\ b.lastHash = b.sequenceId - 1
    /\ b.proposer = Proposer

LEMMA ChainHashes ==
  ASSUME AgreementInv, HashIsHeight, NEW n \in Node
  PROVE  /\ Len(chain[n]) \in Nat /\ Len(chain[n]) >= 1
         /\ \A i \in 1 .. Len(chain[n]) : chain[n][i].hash = i - 1
         /\ LatestBlock(n).hash = Len(chain[n]) - 1
         /\ LatestBlock(n).sequenceId = Len(chain[n]) - 1
<1> DEFINE k == Len(chain[n])
<1>1. /\ k \in Nat /\ k >= 1 /\ chain[n][1] = Genesis
      /\ LatestBlock(n).sequenceId = k - 1
      /\ \A i \in 2 .. k :
           chain[n][i] \in Proposals /\ chain[n][i].sequenceId = i - 1
  BY LatestBlockHeight DEF AgreementInv, TypeInv, ChainInv
<1>2. \A i \in 2 .. k : chain[n][i].hash = i - 1
  BY <1>1 DEF HashIsHeight
<1>3. chain[n][1].hash = 0
  BY <1>1 DEF Genesis
<1>4. \A i \in 1 .. k : i = 1 \/ i \in 2 .. k
  BY <1>1
<1>5. \A i \in 1 .. k : chain[n][i].hash = i - 1
  BY <1>2, <1>3, <1>4
<1>6. k \in 1 .. k
  BY <1>1
<1> QED
  BY <1>1, <1>5, <1>6 DEF LatestBlock

LEMMA HashIsHeightNext ==
  ASSUME AgreementInv, HashIsHeight, [Next]_vars
  PROVE  HashIsHeight'
<1>1. CASE Proposals' = Proposals
  BY <1>1 DEF HashIsHeight
<1>2. ASSUME NEW n \in Node, NEW data \in PendingTransactions(n),
             Propose(n, data)
      PROVE  HashIsHeight'
  <2> DEFINE b == NewBlock(n, data)
  <2>1. /\ n = Proposer /\ LatestBlock(n).sequenceId + 1 = proposedSequenceId[n]
        /\ proposedSequenceId[n] = minted + 1 /\ minted \in Nat
    BY <1>2
       DEF Propose, MayPropose, AgreementInv, TypeInv, TypeOK, ProposalInv,
           Hash
  <2>2. /\ LatestBlock(n).hash = LatestBlock(n).sequenceId
        /\ LatestBlock(n).hash \in Nat
    BY ChainHashes
  <2>3. /\ b.hash = b.sequenceId /\ b.lastHash = b.sequenceId - 1
        /\ b.proposer = Proposer
    BY <2>1, <2>2 DEF NewBlock
  <2> QED
    BY <1>2, <2>3, ProposeProposals DEF HashIsHeight
<1> QED
  BY <1>1, <1>2, NextStep DEF Step, Quiet

BaseInv == KeptInv /\ ZombieInv /\ LocalInv /\ HashIsHeight

LEMMA BaseInvariant ==
  ASSUME Proposer \notin Restartable
  PROVE  Spec => []BaseInv
<1>1. Init => BaseInv
  <2>1. Init => HashIsHeight
    BY DEF Init, HashIsHeight, Proposals
  <2> QED
    BY <2>1, KeptInit, ZombieInit, LocalInit DEF BaseInv
<1>2. BaseInv /\ [Next]_vars => BaseInv'
  BY KeptNext, ZombieNext, LocalNext, HashIsHeightNext DEF BaseInv, KeptInv
<1> QED
  BY <1>1, <1>2, PTL DEF Spec

\* What n has counted it keeps, until that phase is complete.
Keeps(n) ==
  \A p \in Phase :
    /\ Complete(p, n) \subseteq Complete(p, n)'
    /\ \A h \in Hash : Counted(p, n, h) \subseteq Counted(p, n, h)'
                         \/ h \in Complete(p, n)'

LEMMA NodeKeeps ==
  ASSUME ZombieInv, [Next]_vars, NEW n \in Steady, n \notin Restartable
  PROVE  Keeps(n)
<1> USE DEF Keeps, Phase, Counted, Complete
<1>1. n \in Node /\ n \notin Expirable /\ PoolStep(n)
  BY EveryStepIsPoolStep DEF Steady, ZombieInv, TypeInv
<1>2. ASSUME NEW b \in Block, PoolsBlock(n, b)
      PROVE  Keeps(n)
  BY <1>2 DEF PoolsBlock
<1>3. ASSUME NEW h \in Hash, NEW v \in Node, CountsPrepare(n, h, v)
      PROVE  Keeps(n)
  BY <1>3 DEF CountsPrepare
<1>4. ASSUME NEW h \in Hash, NEW v \in Node, CountsCommit(n, h, v)
      PROVE  Keeps(n)
  BY <1>4 DEF CountsCommit
<1>5. ASSUME NEW c \in callbacks[n], CleansUp(n, c)
      PROVE  Keeps(n)
  <2>1. c.block.hash \in committed[n] /\ c.block.hash \in Hash
    BY <1>1 DEF ZombieInv, CompletedFirst, Completed, TypeInv, TypeOK
  <2>2. c.block.hash \in prepared[n]
    BY <2>1 DEF ZombieInv, CommitAfterPrepared
  <2> QED
    BY <1>5, <2>1, <2>2 DEF CleansUp
<1> QED
  BY <1>1, <1>2, <1>3, <1>4, <1>5
     DEF PoolStep, SettlesBlocks, Pools, PutsOff, Retries, Forgets, StartsAgain

(***************************************************************************)
(* The order at one node: it takes in a block when the one below has its   *)
(* commits, and then every block that gets its commits is valid at once.   *)
(***************************************************************************)
Follows(n, h) == h >= 1 /\ (h = 1 \/ h - 1 \in committed[n])

Ordered(n) ==
  /\ \A h \in Hash : Ready(n, h) => Follows(n, h)
  /\ \A h \in committed[n] : h < Len(chain[n])
  /\ pendingCommits[n] = {} /\ \A c \in callbacks[n] : c.isAdded

\* The steps of n in a mesh.
OrderedStep(n) ==
  \/ SettlesBlocks(n)
  \/ \E b \in Block : PoolsBlock(n, b) /\ Follows(n, b.hash)
  \/ \E h \in Hash, v \in Node : CountsPrepare(n, h, v) \/ CountsCommit(n, h, v)

\* The block that gets its commits is the next one of the chain.
LEMMA CommittedIsNext ==
  ASSUME BaseInv, NEW n \in Steady, Ordered(n), NEW h \in Hash,
         commits[n][h] # {}, h \notin committed[n]
  PROVE  /\ h = Len(chain[n])
         /\ \A b \in blockPool[n] : b.hash = h => IsValidBlock(n, b)
<1>1. /\ n \in Node /\ TypeOK /\ AgreementInv /\ HashIsHeight
      /\ blockPool[n] \subseteq Proposals
  BY DEF Steady, BaseInv, KeptInv, AgreementInv, TypeInv, PooledAreProposed
<1>2. /\ Len(chain[n]) \in Nat /\ Len(chain[n]) >= 1
      /\ \A i \in 1 .. Len(chain[n]) : chain[n][i].hash = i - 1
      /\ LatestBlock(n).hash = Len(chain[n]) - 1
      /\ LatestBlock(n).sequenceId = Len(chain[n]) - 1
  BY <1>1, ChainHashes
<1>3. h \in Nat /\ Ready(n, h)
  BY DEF Hash, Ready, BaseInv, ZombieInv, CommitAfterPrepared
<1>4. Follows(n, h)
  BY <1>3 DEF Ordered
<1>5. h <= Len(chain[n])
  BY <1>2, <1>3, <1>4 DEF Follows, Ordered
<1>6. ~ h < Len(chain[n])
  <2> SUFFICES ASSUME h < Len(chain[n]) PROVE FALSE
    OBVIOUS
  <2>1. h >= 1 /\ h + 1 \in 2 .. Len(chain[n])
    BY <1>2, <1>3, <1>4 DEF Follows
  <2>2. chain[n][h + 1].hash = h
    BY <1>2, <1>3, <2>1
  <2>3. h + 1 \in Above(n)
    BY <1>1, <1>3, <2>1 DEF Above, TypeOK
  <2>4. Completed(n)
    BY DEF BaseInv, ZombieInv, CompletedFirst
  <2> QED
    BY <2>2, <2>3, <2>4 DEF Completed
<1>7. h = Len(chain[n])
  BY <1>2, <1>3, <1>5, <1>6
<1>8. \A b \in blockPool[n] : b.hash = h => IsValidBlock(n, b)
  BY <1>1, <1>2, <1>7 DEF HashIsHeight, IsValidBlock
<1> QED
  BY <1>7, <1>8

LEMMA OrderedNext ==
  ASSUME BaseInv, NEW n \in Steady, Ordered(n), OrderedStep(n)
  PROVE  Ordered(n)'
<1> USE DEF Ordered, Follows, Ready
<1>1. /\ n \in Node /\ TypeOK /\ blockPool[n] \subseteq Block
      /\ chain[n] \in Seq(Block)
      /\ \A b \in Block : b.hash \in Hash
  BY DEF Steady, BaseInv, KeptInv, AgreementInv, TypeInv, TypeOK, Block
<1>2. CASE UNCHANGED Pools(n)
  BY <1>2 DEF Pools, OtherPools
<1>3. ASSUME NEW b \in Block, PoolsBlock(n, b), Follows(n, b.hash)
      PROVE  Ordered(n)'
  BY <1>3 DEF PoolsBlock, OtherPools
<1>4. ASSUME NEW h \in Hash, NEW v \in Node, CountsPrepare(n, h, v)
      PROVE  Ordered(n)'
  BY <1>4 DEF CountsPrepare, OtherPools
<1>5. ASSUME NEW h \in Hash, NEW v \in Node, CountsCommit(n, h, v)
      PROVE  Ordered(n)'
  <2>1. /\ h = Len(chain[n])
        /\ \A b \in blockPool[n] : b.hash = h => IsValidBlock(n, b)
    BY <1>5, CommittedIsNext DEF CountsCommit
  <2>2. CASE UNCHANGED <<chain[n], callbacks[n], committed[n]>>
    BY <1>5, <2>2 DEF CountsCommit
  <2>3. \E b \in blockPool[n] : b.hash = h
    BY <1>5 DEF CountsCommit, BaseInv, KeptInv, OpenHasBlock
  <2>4. ASSUME NEW b \in blockPool[n], b.hash = h, AddsBlock(n, b, "commit")
        PROVE  Ordered(n)'
    <3>1. IsValidBlock(n, b)
      BY <2>1, <2>4
    <3>2. chain'[n] = Append(chain[n], b)
      BY <2>4, <3>1 DEF AddsBlock
    <3>3. Len(chain'[n]) = Len(chain[n]) + 1 /\ Len(chain[n]) \in Nat
      BY <1>1, <3>2
    <3>4. \A c \in Continuations(n, b, "commit") : c.isAdded
      <4>1. \A c \in Continuations(n, b, "commit") :
              c.isAdded \in Outcomes(n, b, "commit")
        BY DEF Continuations
      <4>2. Outcomes(n, b, "commit") \subseteq {TRUE}
        BY <3>1 DEF Outcomes
      <4> QED
        BY <4>1, <4>2
    <3>5. \A c \in callbacks'[n] : c.isAdded
      BY <2>4, <3>4 DEF AddsBlock
    <3>6. committed'[n] \subseteq committed[n] \union {h}
      BY <1>5 DEF CountsCommit
    <3>7. committed[n] \subseteq committed'[n]
      BY <1>5 DEF CountsCommit
    <3>8. \A g \in committed'[n] : g < Len(chain'[n])
      <4>1. committed[n] \subseteq Nat
        BY <1>1 DEF TypeOK, Hash
      <4> QED
        BY <2>1, <3>3, <3>6, <4>1
    <3>9. UNCHANGED <<prepares[n], prepared[n], pendingCommits[n]>>
      BY <1>5 DEF CountsCommit
    <3> QED
      BY <3>5, <3>7, <3>8, <3>9
  <2> QED
    BY <1>5, <2>2, <2>3, <2>4 DEF CountsCommit
<1>6. ASSUME NEW c \in callbacks[n], CleansUp(n, c)
      PROVE  Ordered(n)'
  BY <1>6 DEF CleansUp, WithoutKey
<1>7. ASSUME NEW c \in callbacks[n], PutsOff(n, c)
      PROVE  FALSE
  BY <1>7 DEF PutsOff
<1>8. ASSUME NEW b \in Block, Retries(n, b)
      PROVE  FALSE
  BY <1>8 DEF Retries
<1> QED
  BY <1>2, <1>3, <1>4, <1>5, <1>6, <1>7, <1>8 DEF OrderedStep, SettlesBlocks
-----------------------------------------------------------------------------
(***************************************************************************)
(* What n knows once it has handled the first k messages of the queue q:   *)
(* what its pools say, or what those messages will tell them.              *)
(***************************************************************************)
Has(q, k, m) == \E j \in 1 .. k : q[j] = m

HasBlock(q, k, h) ==
  \E j \in 1 .. k : q[j].type = "pre_prepare" /\ q[j].block.hash = h

KnowsBlock(n, q, k, h) == Ready(n, h) \/ HasBlock(q, k, h)

Hears(p, n, q, k, h, v) == v \in Counted(p, n, h) \/ Has(q, k, Vote(p, h, v))

\* n will have noticed the quorum, which has a vote of w.
KnowsQuorum(p, w, n, q, k, h) ==
  \/ h \in Complete(p, n)
  \/ \E V \in SUBSET Node :
       /\ w \in V
       /\ ThresholdReached(V)
       /\ \A v \in V : Hears(p, n, q, k, h, v)

\* What the i-th message of q rests on is known by then.
RestsOnKnown(w, n, q, i) ==
  LET m == q[i]
  IN  /\ m.type = "prepare" => KnowsBlock(n, q, i - 1, m.blockHash)
      /\ m.type = "commit" =>
           KnowsQuorum("prepare", w, n, q, i - 1, m.blockHash)
      /\ m.type = "pre_prepare" =>
           /\ m.block.hash >= 1
           /\ \/ m.block.hash = 1
              \/ KnowsQuorum("commit", w, n, q, i - 1, m.block.hash - 1)

(***************************************************************************)
(* The invariant of a socket whose two ends run, and of any socket.        *)
(***************************************************************************)
Running(l) == l[1] \in alive /\ l[2] \in alive

Relayed(l) ==
  /\ \A h \in Hash :
       Ready(l[1], h) => KnowsBlock(l[2], chan[l], Len(chan[l]), h)
  /\ \A p \in Phase, h \in Hash :
       /\ \A v \in Counted(p, l[1], h) :
            \/ h \in Complete(p, l[2])
            \/ Hears(p, l[2], chan[l], Len(chan[l]), h, v)
       /\ h \in Complete(p, l[1]) =>
            KnowsQuorum(p, l[1], l[2], chan[l], Len(chan[l]), h)

Founded(l) ==
  \A i \in 1 .. Len(chan[l]) : RestsOnKnown(l[1], l[2], chan[l], i)

(***************************************************************************)
(* A step as a socket sees it: d messages, none or one, are handled at its *)
(* head and its sender adds out.                                           *)
(***************************************************************************)
Handled(l) ==
  /\ \A h \in Hash :
       chan[l][1].type = "pre_prepare" /\ chan[l][1].block.hash = h
         => Ready(l[2], h)'
  /\ \A p \in Phase, h \in Hash, v \in Node :
       chan[l][1] = Vote(p, h, v) =>
         h \in Complete(p, l[2])' \/ v \in Counted(p, l[2], h)'

Moves(l, d, out) ==
  /\ d \in {0, 1}
  /\ d <= Len(chan[l])
  /\ Len(chan'[l]) = Len(chan[l]) - d + Len(out)
  /\ \A j \in 1 .. Len(chan[l]) : j > d => chan'[l][j - d] = chan[l][j]
  /\ \A j \in 1 .. Len(out) : chan'[l][Len(chan[l]) - d + j] = out[j]
  /\ d = 1 => Handled(l)
  /\ Keeps(l[2])

\* Whatever is new in the pools of n, out tells.
Tells(n, out) ==
  /\ \A h \in Hash : Ready(n, h)' => KnowsBlock(n, out, Len(out), h)
  /\ \A p \in Phase, h \in Hash :
       /\ \A v \in Counted(p, n, h)' : Hears(p, n, out, Len(out), h, v)
       /\ h \in Complete(p, n)' => KnowsQuorum(p, n, n, out, Len(out), h)

(***************************************************************************)
(* What the receiver knew of a queue it still knows of what is left of it. *)
(***************************************************************************)
LEMMA StillHas ==
  ASSUME NEW l, NEW d, NEW out, Moves(l, d, out), Len(chan[l]) \in Nat,
         NEW k \in Nat, d <= k, k <= Len(chan[l]), NEW m, Has(chan[l], k, m)
  PROVE  Has(chan[l], k - d, m)' \/ (d = 1 /\ chan[l][1] = m)
<1>1. PICK j \in 1 .. k : chan[l][j] = m
  BY DEF Has
<1>2. CASE j > d
  <2>1. j - d \in 1 .. k - d /\ j \in 1 .. Len(chan[l])
    BY <1>2 DEF Moves
  <2>2. chan'[l][j - d] = m
    BY <1>1, <1>2, <2>1 DEF Moves
  <2> QED
    BY <2>1, <2>2 DEF Has
<1>3. CASE ~ j > d
  <2>1. d = 1 /\ j = 1
    BY <1>3 DEF Moves
  <2> QED
    BY <1>1, <2>1
<1> QED
  BY <1>2, <1>3

LEMMA StillHears ==
  ASSUME NEW l, NEW d, NEW out, Moves(l, d, out), Len(chan[l]) \in Nat,
         NEW k \in Nat, d <= k, k <= Len(chan[l]),
         NEW p \in Phase, NEW h \in Hash, NEW v \in Node,
         Hears(p, l[2], chan[l], k, h, v)
  PROVE  Hears(p, l[2], chan[l], k - d, h, v)' \/ h \in Complete(p, l[2])'
<1>1. CASE v \in Counted(p, l[2], h)
  BY <1>1 DEF Moves, Keeps, Hears
<1>2. CASE Has(chan[l], k, Vote(p, h, v))
  <2>1. CASE Has(chan[l], k - d, Vote(p, h, v))'
    BY <2>1 DEF Hears
  <2>2. CASE d = 1 /\ chan[l][1] = Vote(p, h, v)
    BY <2>2 DEF Moves, Handled, Hears
  <2>3. \/ Has(chan[l], k - d, Vote(p, h, v))'
        \/ d = 1 /\ chan[l][1] = Vote(p, h, v)
    <3>1. PICK m : m = Vote(p, h, v)
      OBVIOUS
    <3>2. Has(chan[l], k - d, m)' \/ (d = 1 /\ chan[l][1] = m)
      BY <1>2, <3>1, StillHas
    <3> QED
      BY <3>1, <3>2 DEF Has, Vote
  <2> QED
    BY <2>1, <2>2, <2>3
<1> QED
  BY <1>1, <1>2 DEF Hears

LEMMA StillKnowsQuorum ==
  ASSUME NEW l, NEW d, NEW out, Moves(l, d, out), Len(chan[l]) \in Nat,
         NEW k \in Nat, d <= k, k <= Len(chan[l]),
         NEW p \in Phase, NEW h \in Hash, NEW w,
         KnowsQuorum(p, w, l[2], chan[l], k, h)
  PROVE  KnowsQuorum(p, w, l[2], chan[l], k - d, h)'
<1>1. CASE h \in Complete(p, l[2])
  BY <1>1 DEF Moves, Keeps, KnowsQuorum
<1>2. ASSUME NEW V \in SUBSET Node, w \in V, ThresholdReached(V),
             \A v \in V : Hears(p, l[2], chan[l], k, h, v)
      PROVE  KnowsQuorum(p, w, l[2], chan[l], k - d, h)'
  <2>1. \A v \in V : \/ Hears(p, l[2], chan[l], k - d, h, v)'
                     \/ h \in Complete(p, l[2])'
    BY <1>2, StillHears
  <2> QED
    BY <1>2, <2>1 DEF KnowsQuorum
<1> QED
  BY <1>1, <1>2 DEF KnowsQuorum

LEMMA StillKnowsBlock ==
  ASSUME NEW l, NEW d, NEW out, Moves(l, d, out), Len(chan[l]) \in Nat,
         NEW k \in Nat, d <= k, k <= Len(chan[l]), NEW h \in Hash,
         KnowsBlock(l[2], chan[l], k, h)
  PROVE  KnowsBlock(l[2], chan[l], k - d, h)'
<1>1. CASE Ready(l[2], h)
  <2>1. Ready(l[2], h)'
    BY <1>1 DEF Moves, Keeps, Ready, Phase, Counted, Complete
  <2> QED
    BY <2>1 DEF KnowsBlock
<1>2. CASE HasBlock(chan[l], k, h)
  <2>1. PICK j \in 1 .. k :
          chan[l][j].type = "pre_prepare" /\ chan[l][j].block.hash = h
    BY <1>2 DEF HasBlock
  <2>2. CASE j > d
    <3>1. j - d \in 1 .. k - d /\ j \in 1 .. Len(chan[l])
      BY <2>2 DEF Moves
    <3>2. chan'[l][j - d] = chan[l][j]
      BY <2>2, <3>1 DEF Moves
    <3>3. HasBlock(chan[l], k - d, h)'
      BY <2>1, <3>1, <3>2 DEF HasBlock
    <3> QED
      BY <3>3 DEF KnowsBlock
  <2>3. CASE ~ j > d
    <3>1. d = 1 /\ j = 1
      BY <2>3 DEF Moves
    <3>2. Ready(l[2], h)'
      BY <2>1, <3>1 DEF Moves, Handled
    <3> QED
      BY <3>2 DEF KnowsBlock
  <2> QED
    BY <2>2, <2>3
<1> QED
  BY <1>1, <1>2 DEF KnowsBlock

(***************************************************************************)
(* What the sender knew, or tells before, the receiver will know.          *)
(***************************************************************************)
LEMMA ToldHears ==
  ASSUME NEW l, NEW d, NEW out, Moves(l, d, out), Relayed(l),
         Len(chan[l]) \in Nat, Len(out) \in Nat,
         NEW i \in 0 .. Len(out), NEW b, b = Len(chan[l]) - d + i,
         NEW p \in Phase, NEW h \in Hash, NEW v \in Node,
         Hears(p, l[1], out, i, h, v)
  PROVE  Hears(p, l[2], chan[l], b, h, v)' \/ h \in Complete(p, l[2])'
<1>1. PICK k \in Nat : k = Len(chan[l])
  OBVIOUS
<1>2. d \in {0, 1} /\ d <= k /\ k - d <= b /\ k - d \in Nat /\ b \in Nat
  BY <1>1 DEF Moves
<1>3. CASE v \in Counted(p, l[1], h)
  <2>1. CASE h \in Complete(p, l[2])
    BY <2>1 DEF Moves, Keeps
  <2>2. CASE Hears(p, l[2], chan[l], k, h, v)
    <3>1. \/ Hears(p, l[2], chan[l], k - d, h, v)'
          \/ h \in Complete(p, l[2])'
      BY <1>1, <1>2, <2>2, StillHears
    <3> QED
      BY <1>2, <3>1 DEF Hears, Has
  <2> QED
    BY <1>1, <1>3, <2>1, <2>2 DEF Relayed
<1>4. CASE Has(out, i, Vote(p, h, v))
  <2>1. PICK j \in 1 .. i : out[j] = Vote(p, h, v)
    BY <1>4 DEF Has
  <2>2. j \in 1 .. Len(out) /\ k - d + j \in 1 .. b
    BY <1>1, <1>2
  <2>3. chan'[l][k - d + j] = Vote(p, h, v)
    BY <1>1, <2>1, <2>2 DEF Moves
  <2>4. Has(chan[l], b, Vote(p, h, v))'
    BY <2>2, <2>3 DEF Has, Vote
  <2> QED
    BY <2>4 DEF Hears
<1> QED
  BY <1>3, <1>4 DEF Hears

LEMMA ToldKnowsQuorum ==
  ASSUME NEW l, NEW d, NEW out, Moves(l, d, out), Relayed(l),
         Len(chan[l]) \in Nat, Len(out) \in Nat,
         NEW i \in 0 .. Len(out), NEW b, b = Len(chan[l]) - d + i,
         NEW p \in Phase, NEW h \in Hash,
         KnowsQuorum(p, l[1], l[1], out, i, h)
  PROVE  KnowsQuorum(p, l[1], l[2], chan[l], b, h)'
<1>1. PICK k \in Nat : k = Len(chan[l])
  OBVIOUS
<1>2. /\ d \in {0, 1} /\ d <= k /\ k <= Len(chan[l])
      /\ k - d <= b /\ k - d \in Nat /\ b \in Nat
  BY <1>1 DEF Moves
<1>3. CASE h \in Complete(p, l[1])
  <2>1. KnowsQuorum(p, l[1], l[2], chan[l], k, h)
    BY <1>1, <1>3 DEF Relayed
  <2>2. KnowsQuorum(p, l[1], l[2], chan[l], k - d, h)'
    BY <1>2, <2>1, StillKnowsQuorum
  <2>3. ASSUME NEW v \in Node, Hears(p, l[2], chan[l], k - d, h, v)'
        PROVE  Hears(p, l[2], chan[l], b, h, v)'
    BY <1>2, <2>3 DEF Hears, Has
  <2> QED
    BY <2>2, <2>3 DEF KnowsQuorum
<1>4. ASSUME NEW V \in SUBSET Node, l[1] \in V, ThresholdReached(V),
             \A v \in V : Hears(p, l[1], out, i, h, v)
      PROVE  KnowsQuorum(p, l[1], l[2], chan[l], b, h)'
  <2>1. \A v \in V : \/ Hears(p, l[2], chan[l], b, h, v)'
                     \/ h \in Complete(p, l[2])'
    BY <1>4, ToldHears
  <2> QED
    BY <1>4, <2>1 DEF KnowsQuorum
<1> QED
  BY <1>3, <1>4 DEF KnowsQuorum

LEMMA ToldKnowsBlock ==
  ASSUME NEW l, NEW d, NEW out, Moves(l, d, out), Relayed(l),
         Len(chan[l]) \in Nat, Len(out) \in Nat,
         NEW i \in 0 .. Len(out), NEW b, b = Len(chan[l]) - d + i,
         NEW h \in Hash, KnowsBlock(l[1], out, i, h)
  PROVE  KnowsBlock(l[2], chan[l], b, h)'
<1>1. PICK k \in Nat : k = Len(chan[l])
  OBVIOUS
<1>2. d \in {0, 1} /\ d <= k /\ k - d <= b /\ k - d \in Nat /\ b \in Nat
  BY <1>1 DEF Moves
<1>3. CASE Ready(l[1], h)
  <2>1. KnowsBlock(l[2], chan[l], k, h)
    BY <1>1, <1>3 DEF Relayed
  <2>2. KnowsBlock(l[2], chan[l], k - d, h)'
    BY <1>1, <1>2, <2>1, StillKnowsBlock
  <2> QED
    BY <1>2, <2>2 DEF KnowsBlock, HasBlock
<1>4. CASE HasBlock(out, i, h)
  <2>1. PICK j \in 1 .. i :
          out[j].type = "pre_prepare" /\ out[j].block.hash = h
    BY <1>4 DEF HasBlock
  <2>2. j \in 1 .. Len(out) /\ k - d + j \in 1 .. b
    BY <1>1, <1>2
  <2>3. chan'[l][k - d + j] = out[j]
    BY <1>1, <2>2 DEF Moves
  <2>4. HasBlock(chan[l], b, h)'
    BY <2>1, <2>2, <2>3 DEF HasBlock
  <2> QED
    BY <2>4 DEF KnowsBlock
<1> QED
  BY <1>3, <1>4 DEF KnowsBlock

(***************************************************************************)
(* The invariant of one socket over one step.                              *)
(***************************************************************************)
\* The messages of a queue name blocks by their hashes.
Queue(q) ==
  /\ Len(q) \in Nat
  /\ \A i \in 1 .. Len(q) : q[i] \in Message

LEMMA MessageHashes ==
  ASSUME NEW m \in Message
  PROVE  /\ m.type \in Phase => m.blockHash \in Hash
         /\ m.type = "pre_prepare" /\ m.block.hash >= 1 =>
              m.block.hash \in Hash /\ m.block.hash - 1 \in Hash
  BY MessageFields, BoundAssumption DEF Phase, Block, Hash

\* A message of the queue that is not the one handled now.
LEMMA StillRests ==
  ASSUME NEW l, NEW d, NEW out, Moves(l, d, out), Queue(chan[l]),
         NEW j \in 1 .. Len(chan[l]), j > d,
         RestsOnKnown(l[1], l[2], chan[l], j)
  PROVE  RestsOnKnown(l[1], l[2], chan[l], j - d)'
<1>1. PICK m : m = chan[l][j]
  OBVIOUS
<1>2. /\ m \in Message /\ Len(chan[l]) \in Nat /\ d \in Nat
      /\ j - 1 \in Nat /\ d <= j - 1 /\ j - 1 <= Len(chan[l])
  BY <1>1 DEF Queue, Moves
<1>3. chan'[l][j - d] = m /\ (j - d) - 1 = (j - 1) - d
  BY <1>1, <1>2 DEF Moves
<1>4. ASSUME m.type = "prepare"
      PROVE  KnowsBlock(l[2], chan[l], (j - d) - 1, m.blockHash)'
  <2>1. KnowsBlock(l[2], chan[l], j - 1, m.blockHash) /\ m.blockHash \in Hash
    BY <1>1, <1>2, <1>4, MessageHashes DEF RestsOnKnown, Phase
  <2>2. KnowsBlock(l[2], chan[l], (j - 1) - d, m.blockHash)'
    BY <1>2, <2>1, StillKnowsBlock
  <2> QED
    BY <1>3, <2>2
<1>5. ASSUME m.type = "commit"
      PROVE  KnowsQuorum("prepare", l[1], l[2], chan[l], (j - d) - 1,
                         m.blockHash)'
  <2>1. /\ KnowsQuorum("prepare", l[1], l[2], chan[l], j - 1, m.blockHash)
        /\ m.blockHash \in Hash
    BY <1>1, <1>2, <1>5, MessageHashes DEF RestsOnKnown, Phase
  <2>2. KnowsQuorum("prepare", l[1], l[2], chan[l], (j - 1) - d, m.blockHash)'
    BY <1>2, <2>1, StillKnowsQuorum DEF Phase
  <2> QED
    BY <1>3, <2>2
<1>6. ASSUME m.type = "pre_prepare"
      PROVE  /\ m.block.hash >= 1
             /\ \/ m.block.hash = 1
                \/ KnowsQuorum("commit", l[1], l[2], chan[l], (j - d) - 1,
                               m.block.hash - 1)'
  <2>1. /\ m.block.hash >= 1
        /\ \/ m.block.hash = 1
           \/ KnowsQuorum("commit", l[1], l[2], chan[l], j - 1,
                          m.block.hash - 1)
    BY <1>1, <1>6 DEF RestsOnKnown
  <2>2. m.block.hash - 1 \in Hash
    BY <1>2, <1>6, <2>1, MessageHashes
  <2>3. CASE KnowsQuorum("commit", l[1], l[2], chan[l], j - 1, m.block.hash - 1)
    <3>1. KnowsQuorum("commit", l[1], l[2], chan[l], (j - 1) - d,
                      m.block.hash - 1)'
      BY <1>2, <2>2, <2>3, StillKnowsQuorum DEF Phase
    <3> QED
      BY <1>3, <2>1, <3>1
  <2> QED
    BY <2>1, <2>3
<1> QED
  BY <1>3, <1>4, <1>5, <1>6 DEF RestsOnKnown

\* A message that is sent now.
LEMMA ToldRests ==
  ASSUME NEW l, NEW d, NEW out, Moves(l, d, out), Relayed(l),
         Queue(chan[l]), Queue(out), NEW j \in 1 .. Len(out),
         RestsOnKnown(l[1], l[1], out, j), NEW e, e = Len(chan[l]) - d + j
  PROVE  RestsOnKnown(l[1], l[2], chan[l], e)'
<1>1. PICK m : m = out[j]
  OBVIOUS
<1>2. PICK b : b = Len(chan[l]) - d + (j - 1)
  OBVIOUS
<1>3. /\ m \in Message /\ Len(chan[l]) \in Nat /\ Len(out) \in Nat
      /\ j - 1 \in 0 .. Len(out) /\ d \in {0, 1}
  BY <1>1 DEF Queue, Moves
<1>4. chan'[l][e] = m /\ e - 1 = b
  BY <1>1, <1>2, <1>3 DEF Moves
<1>5. ASSUME m.type = "prepare"
      PROVE  KnowsBlock(l[2], chan[l], e - 1, m.blockHash)'
  <2>1. KnowsBlock(l[1], out, j - 1, m.blockHash) /\ m.blockHash \in Hash
    BY <1>1, <1>3, <1>5, MessageHashes DEF RestsOnKnown, Phase
  <2>2. KnowsBlock(l[2], chan[l], b, m.blockHash)'
    BY <1>2, <1>3, <2>1, ToldKnowsBlock
  <2> QED
    BY <1>4, <2>2
<1>6. ASSUME m.type = "commit"
      PROVE  KnowsQuorum("prepare", l[1], l[2], chan[l], e - 1, m.blockHash)'
  <2>1. /\ KnowsQuorum("prepare", l[1], l[1], out, j - 1, m.blockHash)
        /\ m.blockHash \in Hash
    BY <1>1, <1>3, <1>6, MessageHashes DEF RestsOnKnown, Phase
  <2>2. KnowsQuorum("prepare", l[1], l[2], chan[l], b, m.blockHash)'
    BY <1>2, <1>3, <2>1, ToldKnowsQuorum DEF Phase
  <2> QED
    BY <1>4, <2>2
<1>7. ASSUME m.type = "pre_prepare"
      PROVE  /\ m.block.hash >= 1
             /\ \/ m.block.hash = 1
                \/ KnowsQuorum("commit", l[1], l[2], chan[l], e - 1,
                               m.block.hash - 1)'
  <2>1. /\ m.block.hash >= 1
        /\ \/ m.block.hash = 1
           \/ KnowsQuorum("commit", l[1], l[1], out, j - 1, m.block.hash - 1)
    BY <1>1, <1>7 DEF RestsOnKnown
  <2>2. m.block.hash - 1 \in Hash
    BY <1>3, <1>7, <2>1, MessageHashes
  <2>3. CASE KnowsQuorum("commit", l[1], l[1], out, j - 1, m.block.hash - 1)
    <3>1. KnowsQuorum("commit", l[1], l[2], chan[l], b, m.block.hash - 1)'
      BY <1>2, <1>3, <2>2, <2>3, ToldKnowsQuorum DEF Phase
    <3> QED
      BY <1>4, <2>1, <3>1
  <2> QED
    BY <2>1, <2>3
<1> QED
  BY <1>4, <1>5, <1>6, <1>7 DEF RestsOnKnown

LEMMA FoundedNext ==
  ASSUME NEW l, NEW d, NEW out, Moves(l, d, out), Founded(l),
         Queue(chan[l]), Queue(out),
         Len(out) > 0 => Relayed(l),
         \A j \in 1 .. Len(out) : RestsOnKnown(l[1], l[1], out, j)
  PROVE  Founded(l)'
<1>1. PICK k \in Nat : k = Len(chan[l])
  BY DEF Queue
<1>2. /\ d \in {0, 1} /\ d <= k /\ Len(out) \in Nat
      /\ Len(chan'[l]) = k - d + Len(out)
  BY <1>1 DEF Moves, Queue
<1>3. ASSUME NEW i \in 1 .. k - d
      PROVE  RestsOnKnown(l[1], l[2], chan[l], i)'
  <2>1. PICK j : j = i + d
    OBVIOUS
  <2>2. j \in 1 .. k /\ j > d /\ j - d = i
    BY <1>2, <2>1
  <2>3. RestsOnKnown(l[1], l[2], chan[l], j - d)'
    BY <1>1, <2>2, StillRests DEF Founded
  <2> QED
    BY <2>2, <2>3
<1>4. ASSUME NEW i \in k - d + 1 .. k - d + Len(out)
      PROVE  RestsOnKnown(l[1], l[2], chan[l], i)'
  <2>1. PICK c \in Nat : c = Len(out)
    BY <1>2
  <2>2. PICK a \in Int : a = k - d
    BY <1>2
  <2>3. i \in a + 1 .. a + c
    BY <2>1, <2>2
  <2>4. PICK j : j = i - a
    OBVIOUS
  <2>5. j \in 1 .. c /\ c > 0 /\ i = a + j
    BY <2>3, <2>4
  <2>6. j \in 1 .. Len(out) /\ Len(out) > 0 /\ i = Len(chan[l]) - d + j
    BY <1>1, <2>1, <2>2, <2>5, Zenon
  <2>7. Relayed(l) /\ RestsOnKnown(l[1], l[1], out, j)
    BY <2>6
  <2> QED
    BY <2>6, <2>7, ToldRests, Zenon
<1>5. \A i \in 1 .. Len(chan'[l]) :
        i \in 1 .. k - d \/ i \in k - d + 1 .. k - d + Len(out)
  BY <1>2
<1> QED
  BY <1>3, <1>4, <1>5 DEF Founded

LEMMA RelayedNext ==
  ASSUME NEW l, NEW d, NEW out, Moves(l, d, out), Relayed(l),
         Queue(chan[l]), Queue(out), Tells(l[1], out),
         prepares' \in [Node -> [Hash -> SUBSET Node]],
         commits' \in [Node -> [Hash -> SUBSET Node]], l[1] \in Node
  PROVE  Relayed(l)'
<1>1. PICK i : i = Len(out)
  OBVIOUS
<1>2. PICK b : b = Len(chan[l]) - d + i
  OBVIOUS
<1>3. /\ i \in 0 .. Len(out) /\ Len(chan[l]) \in Nat /\ Len(out) \in Nat
      /\ Len(chan'[l]) = b
  BY <1>1, <1>2 DEF Queue, Moves
<1>4. ASSUME NEW h \in Hash, Ready(l[1], h)'
      PROVE  KnowsBlock(l[2], chan[l], b, h)'
  BY <1>1, <1>2, <1>3, <1>4, ToldKnowsBlock DEF Tells
<1>5. ASSUME NEW p \in Phase, NEW h \in Hash, NEW v \in Counted(p, l[1], h)'
      PROVE  h \in Complete(p, l[2])' \/ Hears(p, l[2], chan[l], b, h, v)'
  <2>1. v \in Node
    BY DEF Phase, Counted
  <2>2. Hears(p, l[1], out, i, h, v)
    BY <1>1 DEF Tells
  <2> QED
    BY <1>2, <1>3, <2>1, <2>2, ToldHears
<1>6. ASSUME NEW p \in Phase, NEW h \in Hash, h \in Complete(p, l[1])'
      PROVE  KnowsQuorum(p, l[1], l[2], chan[l], b, h)'
  BY <1>1, <1>2, <1>3, <1>6, ToldKnowsQuorum DEF Tells
<1> QED
  BY <1>3, <1>4, <1>5, <1>6 DEF Relayed
-----------------------------------------------------------------------------
(***************************************************************************)
(* The message a node is about to handle rests on what its pools say.      *)
(***************************************************************************)
LEMMA QuorumNoticed ==
  ASSUME TypeOK, NEW n \in Node, NEW w, w # n, NoticesQuorum(n),
         NEW p \in Phase, NEW h \in Hash, NEW q, KnowsQuorum(p, w, n, q, 0, h)
  PROVE  h \in Complete(p, n)
<1> SUFFICES ASSUME h \notin Complete(p, n) PROVE FALSE
  OBVIOUS
<1>1. PICK V \in SUBSET Node :
        w \in V /\ ThresholdReached(V) /\ \A v \in V : Hears(p, n, q, 0, h, v)
  BY DEF KnowsQuorum
<1>2. V \subseteq Counted(p, n, h)
  BY <1>1 DEF Hears, Has
<1>3. Counted(p, n, h) \subseteq Node
  BY DEF TypeOK, Phase, Counted
<1>4. IsFiniteSet(Counted(p, n, h))
  BY <1>3, NodeAssumption, FS_Subset
<1>5. /\ Cardinality(V) <= Cardinality(Counted(p, n, h))
      /\ Cardinality(V) \in Nat /\ Cardinality(Counted(p, n, h)) \in Nat
  BY <1>2, <1>4, FS_Subset, FS_CardinalityType
<1>6. ThresholdReached(Counted(p, n, h))
  BY <1>1, <1>5, BoundAssumption DEF ThresholdReached
<1>7. w \in Counted(p, n, h) \ {n}
  BY <1>1, <1>2
<1> QED
  BY <1>6, <1>7 DEF NoticesQuorum

LEMMA HeadRests ==
  ASSUME BaseInv, NEW n \in Steady, NEW w, w # n, NEW q, Queue(q), q # <<>>,
         RestsOnKnown(w, n, q, 1)
  PROVE  /\ Len(q) >= 1 /\ q[1] \in Message
         /\ q[1].type = "pre_prepare" => Follows(n, q[1].block.hash)
         /\ q[1].type = "prepare" => Ready(n, q[1].blockHash)
         /\ q[1].type = "commit" => q[1].blockHash \in prepared[n]
<1> DEFINE m == q[1]
<1>1. Len(q) >= 1 /\ m \in Message
  BY DEF Queue
<1>2. TypeOK /\ n \in Node /\ NoticesQuorum(n)
  BY DEF Steady, BaseInv, ZombieInv, TypeInv, LocalInv
<1>3. ASSUME m.type = "pre_prepare"
      PROVE  Follows(n, m.block.hash)
  <2>1. /\ m.block.hash >= 1
        /\ \/ m.block.hash = 1
           \/ KnowsQuorum("commit", w, n, q, 0, m.block.hash - 1)
    BY <1>3 DEF RestsOnKnown
  <2>2. m.block.hash - 1 \in Hash
    BY <1>1, <1>3, <2>1, MessageHashes
  <2>3. CASE KnowsQuorum("commit", w, n, q, 0, m.block.hash - 1)
    <3>1. m.block.hash - 1 \in Complete("commit", n)
      BY <1>2, <2>2, <2>3, QuorumNoticed DEF Phase
    <3> QED
      BY <2>1, <3>1 DEF Complete, Follows
  <2> QED
    BY <2>1, <2>3 DEF Follows
<1>4. ASSUME m.type = "prepare"
      PROVE  Ready(n, m.blockHash)
  BY <1>4 DEF RestsOnKnown, KnowsBlock, HasBlock
<1>5. ASSUME m.type = "commit"
      PROVE  m.blockHash \in prepared[n]
  <2>1. KnowsQuorum("prepare", w, n, q, 0, m.blockHash)
    BY <1>5 DEF RestsOnKnown
  <2>2. m.blockHash \in Hash
    BY <1>1, <1>5, MessageHashes DEF Phase
  <2>3. m.blockHash \in Complete("prepare", n)
    BY <1>2, <2>1, <2>2, QuorumNoticed DEF Phase
  <2> QED
    BY <2>3 DEF Complete
<1> QED
  BY <1>1, <1>3, <1>4, <1>5

(***************************************************************************)
(* What a node sends when it accepts a message tells all that is new in    *)
(* its pools, in an order in which each message rests on those before.     *)
(***************************************************************************)
LEMMA OutboxIs ==
  ASSUME TypeOK, NEW n \in Node, NEW m \in msgs, NEW out, out = Outbox(n, m)
  PROVE  /\ Queue(out) /\ Len(out) >= 1 /\ out[1] = m
         /\ m.type = "pre_prepare" /\ prepares[n][m.block.hash] = {} =>
              Len(out) = 2 /\ out[2] = Vote("prepare", m.block.hash, n)
         /\ /\ m.type = "prepare" /\ PrepareCompletes(n, m)
            /\ commits[n][m.blockHash] = {} /\ m.blockHash \notin committed[n]
            => Len(out) = 2 /\ out[2] = Vote("commit", m.blockHash, n)
         /\ \/ Len(out) = 1
            \/ /\ Len(out) = 2 /\ m.type = "pre_prepare"
               /\ out[2] = Vote("prepare", m.block.hash, n)
            \/ /\ Len(out) = 2 /\ m.type = "prepare" /\ PrepareCompletes(n, m)
               /\ out[2] = Vote("commit", m.blockHash, n)
<1>1. m \in Message /\ OwnVotes(n, m) \subseteq Message
  BY OwnVotesType DEF TypeOK
<1>2. CASE OwnVotes(n, m) = {}
  <2>1. out = <<m>>
    BY <1>2 DEF Outbox
  <2>2. ~ (m.type = "pre_prepare" /\ prepares[n][m.block.hash] = {})
    BY <1>2 DEF OwnVotes
  <2>3. ~ /\ m.type = "prepare" /\ PrepareCompletes(n, m)
          /\ commits[n][m.blockHash] = {} /\ m.blockHash \notin committed[n]
    BY <1>2 DEF OwnVotes
  <2> QED
    BY <1>1, <2>1, <2>2, <2>3 DEF Queue
<1>3. ASSUME NEW v, OwnVotes(n, m) = {v}
      PROVE  out = <<m, v>> /\ v \in Message
  BY <1>1, <1>3 DEF Outbox
<1>4. CASE m.type = "pre_prepare" /\ prepares[n][m.block.hash] = {}
  <2>1. OwnVotes(n, m) = {Vote("prepare", m.block.hash, n)}
    BY <1>4 DEF OwnVotes, PrepareMsg, Vote
  <2>2. /\ out = <<m, Vote("prepare", m.block.hash, n)>>
        /\ Vote("prepare", m.block.hash, n) \in Message
    BY <1>3, <2>1
  <2> QED
    BY <1>1, <1>4, <2>2 DEF Queue
<1>5. CASE /\ m.type = "prepare" /\ PrepareCompletes(n, m)
           /\ commits[n][m.blockHash] = {} /\ m.blockHash \notin committed[n]
  <2>1. OwnVotes(n, m) = {Vote("commit", m.blockHash, n)}
    BY <1>5 DEF OwnVotes, CommitMsg, Vote
  <2>2. /\ out = <<m, Vote("commit", m.blockHash, n)>>
        /\ Vote("commit", m.blockHash, n) \in Message
    BY <1>3, <2>1
  <2> QED
    BY <1>1, <1>5, <2>2 DEF Queue
<1> QED
  BY <1>2, <1>4, <1>5 DEF OwnVotes

LEMMA VoteItself ==
  ASSUME NEW m \in Message, m.type \in Phase
  PROVE  m = Vote(m.type, m.blockHash, m.from)
  BY DEF Message, Phase, Vote

\* The quorum that the vote at the head of out completes at n.
LEMMA QuorumTold ==
  ASSUME BaseInv, NEW n \in Steady, NEW p \in Phase, NEW h \in Hash,
         NEW v \in Node, Counted(p, n, h) # {},
         ThresholdReached(Counted(p, n, h) \union {v}),
         NEW out, out[1] = Vote(p, h, v), NEW k \in Nat, k >= 1
  PROVE  KnowsQuorum(p, n, n, out, k, h)
<1> DEFINE V == Counted(p, n, h) \union {v}
<1>1. Counted(p, n, h) \subseteq Node /\ n \in Counted(p, n, h)
  BY DEF Steady, BaseInv, ZombieInv, TypeInv, TypeOK, LocalInv, OwnVoteFirst,
         Phase, Counted
<1>2. V \in SUBSET Node /\ n \in V /\ ThresholdReached(V)
  BY <1>1
<1>3. Has(out, k, Vote(p, h, v))
  BY DEF Has
<1>4. \A w \in V : Hears(p, n, out, k, h, w)
  BY <1>3 DEF Hears
<1> HIDE DEF V
<1> QED
  BY <1>2, <1>4 DEF KnowsQuorum

LEMMA OutboxRests ==
  ASSUME BaseInv, NEW n \in Steady, NEW m \in msgs, Receive(n, m),
         m.type = "pre_prepare" => Follows(n, m.block.hash),
         NEW out, out = Outbox(n, m)
  PROVE  \A j \in 1 .. Len(out) : RestsOnKnown(n, n, out, j)
<1>1. TypeOK /\ n \in Node /\ m \in Message
  BY DEF Steady, BaseInv, ZombieInv, TypeInv, TypeOK
<1>2. /\ Queue(out) /\ out[1] = m
      /\ \/ Len(out) = 1
         \/ /\ Len(out) = 2 /\ m.type = "pre_prepare"
            /\ out[2] = Vote("prepare", m.block.hash, n)
         \/ /\ Len(out) = 2 /\ m.type = "prepare" /\ PrepareCompletes(n, m)
            /\ out[2] = Vote("commit", m.blockHash, n)
  BY <1>1, OutboxIs
<1>3. m.type = "prepare" => prepares[n][m.blockHash] # {}
  BY
     DEF Receive, OnTransaction, OnPrePrepare, OnPrepare, OnCommit,
         AcceptsPrepare
<1>4. m.type = "commit" => commits[n][m.blockHash] # {} /\ m.blockHash \in Hash
  BY <1>1, MessageFields
     DEF Receive, OnTransaction, OnPrePrepare, OnPrepare, OnCommit,
         AcceptsCommit
<1>5. RestsOnKnown(n, n, out, 1)
  <2>1. m.type = "commit" => m.blockHash \in prepared[n]
    BY <1>4 DEF BaseInv, ZombieInv, CommitAfterPrepared
  <2> QED
    BY <1>2, <1>3, <2>1
       DEF RestsOnKnown, KnowsBlock, KnowsQuorum, Ready, Complete, Follows
<1>6. \A j \in 1 .. Len(out) : j = 1 \/ (Len(out) = 2 /\ j = 2)
  <2>1. Len(out) = 1 \/ Len(out) = 2
    BY <1>2
  <2>2. CASE Len(out) = 1
    BY <2>2
  <2>3. CASE Len(out) = 2
    <3>1. \A j \in 1 .. 2 : j = 1 \/ j = 2
      OBVIOUS
    <3> QED
      BY <2>3, <3>1
  <2> QED
    BY <2>1, <2>2, <2>3
<1>7. CASE m.type = "pre_prepare" /\ out[2] = Vote("prepare", m.block.hash, n)
  <2>1. KnowsBlock(n, out, 1, m.block.hash)
    BY <1>2, <1>7 DEF KnowsBlock, HasBlock
  <2>2. RestsOnKnown(n, n, out, 2)
    <3>1. /\ out[2].type = "prepare" /\ out[2].blockHash = m.block.hash
          /\ 2 - 1 = 1
      BY <1>7 DEF Vote
    <3>2. KnowsBlock(n, out, 2 - 1, out[2].blockHash)
      BY <2>1, <3>1, Zenon
    <3> QED
      BY <3>1, <3>2 DEF RestsOnKnown
  <2> QED
    BY <1>5, <1>6, <2>2
<1>8. CASE /\ m.type = "prepare" /\ PrepareCompletes(n, m)
           /\ out[2] = Vote("commit", m.blockHash, n)
  <2>1. /\ m.blockHash \in Hash /\ m.from \in Node
        /\ m = Vote("prepare", m.blockHash, m.from)
    BY <1>1, <1>8, MessageFields, VoteItself DEF Phase
  <2>2. KnowsQuorum("prepare", n, n, out, 1, m.blockHash)
    BY <1>2, <1>3, <1>8, <2>1, QuorumTold
       DEF Phase, Counted, PrepareCompletes
  <2>3. RestsOnKnown(n, n, out, 2)
    <3>1. /\ out[2].type = "commit" /\ out[2].blockHash = m.blockHash
          /\ 2 - 1 = 1
      BY <1>8 DEF Vote
    <3>2. KnowsQuorum("prepare", n, n, out, 2 - 1, out[2].blockHash)
      BY <2>2, <3>1, Zenon
    <3> QED
      BY <3>1, <3>2 DEF RestsOnKnown
  <2> QED
    BY <1>5, <1>6, <2>3
<1> QED
  BY <1>2, <1>5, <1>6, <1>7, <1>8

\* A step that adds nothing to the pools of n leaves nothing to tell.
LEMMA NothingToTell ==
  ASSUME NEW n, SettlesBlocks(n), NEW out
  PROVE  Tells(n, out)
<1>1. /\ prepared'[n] = prepared[n] /\ committed'[n] = committed[n]
      /\ \A h \in Hash : /\ prepares'[n][h] \subseteq prepares[n][h]
                         /\ commits'[n][h] \subseteq commits[n][h]
  BY DEF SettlesBlocks, Pools, CleansUp, PutsOff, Retries
<1>2. \A h \in Hash : Ready(n, h)' => Ready(n, h)
  BY <1>1 DEF Ready
<1>3. \A p \in Phase, h \in Hash :
        /\ Counted(p, n, h)' \subseteq Counted(p, n, h)
        /\ Complete(p, n)' \subseteq Complete(p, n)
  BY <1>1 DEF Phase, Counted, Complete
<1> QED
  BY <1>2, <1>3 DEF Tells, KnowsBlock, Hears, KnowsQuorum

LEMMA OutboxTells ==
  ASSUME BaseInv, NEW n \in Steady, NEW m \in msgs, Receive(n, m),
         NEW out, out = Outbox(n, m)
  PROVE  Tells(n, out)
<1> DEFINE k == Len(out)
<1>1. TypeOK /\ n \in Node /\ m \in Message
  BY DEF Steady, BaseInv, ZombieInv, TypeInv, TypeOK
<1>2. /\ k \in Nat /\ k >= 1 /\ out[1] = m
      /\ m.type = "pre_prepare" /\ prepares[n][m.block.hash] = {} =>
           k = 2 /\ out[2] = Vote("prepare", m.block.hash, n)
      /\ /\ m.type = "prepare" /\ PrepareCompletes(n, m)
         /\ commits[n][m.blockHash] = {} /\ m.blockHash \notin committed[n]
         => k = 2 /\ out[2] = Vote("commit", m.blockHash, n)
  BY <1>1, OutboxIs DEF Queue
<1>3. CASE UNCHANGED Pools(n)
  BY <1>3, NothingToTell DEF SettlesBlocks
<1>4. CASE m.type = "pre_prepare" /\ m.block \in Block /\ PoolsBlock(n, m.block)
  <2> DEFINE g == m.block.hash
  <2>1. \A h \in Hash : prepares'[n][h] =
          IF h = g /\ prepares[n][g] = {} THEN {n} ELSE prepares[n][h]
    BY <1>4 DEF PoolsBlock
  <2>2. UNCHANGED <<prepared[n], commits[n], committed[n]>>
    BY <1>4 DEF PoolsBlock
  <2>3. ASSUME NEW h \in Hash, Ready(n, h)'
        PROVE  KnowsBlock(n, out, k, h)
    <3>1. CASE h = g
      BY <1>2, <1>4, <3>1 DEF KnowsBlock, HasBlock
    <3>2. CASE h # g
      BY <2>1, <2>2, <2>3, <3>2 DEF KnowsBlock, Ready
    <3> QED
      BY <3>1, <3>2
  <2>4. ASSUME NEW p \in Phase, NEW h \in Hash, NEW v \in Counted(p, n, h)'
        PROVE  Hears(p, n, out, k, h, v)
    <3>1. CASE v \in Counted(p, n, h)
      BY <3>1 DEF Hears
    <3>2. CASE v \notin Counted(p, n, h)
      <4>1. p = "prepare" /\ h = g /\ prepares[n][g] = {} /\ v = n
        BY <2>1, <2>2, <2>4, <3>2 DEF Phase, Counted
      <4>2. 2 \in 1 .. k /\ out[2] = Vote(p, h, v)
        BY <1>2, <1>4, <4>1
      <4> QED
        BY <4>2 DEF Hears, Has
    <3> QED
      BY <3>1, <3>2
  <2>5. \A p \in Phase : Complete(p, n)' = Complete(p, n)
    BY <2>2 DEF Phase, Complete
  <2> QED
    BY <2>3, <2>4, <2>5 DEF Tells, KnowsQuorum
<1>5. CASE /\ m.type = "prepare" /\ m.blockHash \in Hash /\ m.from \in Node
           /\ CountsPrepare(n, m.blockHash, m.from)
  <2> DEFINE g == m.blockHash
  <2>1. m = Vote("prepare", g, m.from)
    BY <1>1, <1>5, VoteItself DEF Phase
  <2>2. /\ prepares[n][g] # {}
        /\ \A h \in Hash : prepares'[n][h] =
             IF h = g THEN prepares[n][g] \union {m.from} ELSE prepares[n][h]
        /\ prepared'[n] = IF PrepareCompletes(n, m) THEN prepared[n] \union {g}
                          ELSE prepared[n]
        /\ \A h \in Hash : commits'[n][h] =
             IF /\ h = g /\ PrepareCompletes(n, m)
                /\ commits[n][g] = {} /\ g \notin committed[n]
             THEN {n} ELSE commits[n][h]
        /\ UNCHANGED committed[n]
    BY <1>5 DEF CountsPrepare, PrepareCompletes
  <2>3. ASSUME NEW h \in Hash, Ready(n, h)'
        PROVE  KnowsBlock(n, out, k, h)
    BY <2>2, <2>3 DEF KnowsBlock, Ready
  <2>4. ASSUME NEW p \in Phase, NEW h \in Hash, NEW v \in Counted(p, n, h)'
        PROVE  Hears(p, n, out, k, h, v)
    <3>1. CASE v \in Counted(p, n, h)
      BY <3>1 DEF Hears
    <3>2. CASE v \notin Counted(p, n, h) /\ p = "prepare"
      <4>1. h = g /\ v = m.from
        BY <2>2, <2>4, <3>2 DEF Counted
      <4>2. 1 \in 1 .. k /\ out[1] = Vote(p, h, v)
        BY <1>2, <2>1, <3>2, <4>1
      <4> QED
        BY <4>2 DEF Hears, Has
    <3>3. CASE v \notin Counted(p, n, h) /\ p = "commit"
      <4>1. /\ h = g /\ v = n /\ PrepareCompletes(n, m)
            /\ commits[n][g] = {} /\ g \notin committed[n]
        BY <2>2, <2>4, <3>3 DEF Counted
      <4>2. k = 2 /\ out[2] = Vote("commit", g, n)
        BY <1>2, <1>5, <4>1
      <4>3. 2 \in 1 .. k /\ out[2] = Vote(p, h, v)
        BY <3>3, <4>1, <4>2
      <4> QED
        BY <4>3 DEF Hears, Has
    <3> QED
      BY <3>1, <3>2, <3>3 DEF Phase
  <2>5. ASSUME NEW p \in Phase, NEW h \in Hash, h \in Complete(p, n)'
        PROVE  KnowsQuorum(p, n, n, out, k, h)
    <3>1. CASE h \in Complete(p, n)
      BY <3>1 DEF KnowsQuorum
    <3>2. CASE h \notin Complete(p, n)
      <4>1. p = "prepare" /\ h = g /\ PrepareCompletes(n, m)
        BY <2>2, <2>5, <3>2 DEF Phase, Complete
      <4>2. /\ Counted(p, n, h) # {}
            /\ ThresholdReached(Counted(p, n, h) \union {m.from})
        BY <2>2, <4>1 DEF Counted, PrepareCompletes
      <4> QED
        BY <1>2, <1>5, <2>1, <4>1, <4>2, QuorumTold
    <3> QED
      BY <3>1, <3>2
  <2> QED
    BY <2>3, <2>4, <2>5 DEF Tells
<1>6. CASE /\ m.type = "commit" /\ m.blockHash \in Hash /\ m.from \in Node
           /\ CountsCommit(n, m.blockHash, m.from)
  <2> DEFINE g == m.blockHash
  <2>1. m = Vote("commit", g, m.from)
    BY <1>1, <1>6, VoteItself DEF Phase
  <2>2. /\ commits[n][g] # {}
        /\ \A h \in Hash : commits'[n][h] =
             IF h = g THEN commits[n][g] \union {m.from} ELSE commits[n][h]
        /\ committed'[n] = IF ThresholdReached(commits[n][g] \union {m.from})
                           THEN committed[n] \union {g} ELSE committed[n]
        /\ UNCHANGED <<prepares[n], prepared[n]>>
    BY <1>6 DEF CountsCommit
  <2>3. ASSUME NEW h \in Hash, Ready(n, h)'
        PROVE  KnowsBlock(n, out, k, h)
    BY <2>2, <2>3 DEF KnowsBlock, Ready
  <2>4. ASSUME NEW p \in Phase, NEW h \in Hash, NEW v \in Counted(p, n, h)'
        PROVE  Hears(p, n, out, k, h, v)
    <3>1. CASE v \in Counted(p, n, h)
      BY <3>1 DEF Hears
    <3>2. CASE v \notin Counted(p, n, h)
      <4>1. p = "commit" /\ h = g /\ v = m.from
        BY <2>2, <2>4, <3>2 DEF Phase, Counted
      <4>2. 1 \in 1 .. k /\ out[1] = Vote(p, h, v)
        BY <1>2, <2>1, <4>1
      <4> QED
        BY <4>2 DEF Hears, Has
    <3> QED
      BY <3>1, <3>2
  <2>5. ASSUME NEW p \in Phase, NEW h \in Hash, h \in Complete(p, n)'
        PROVE  KnowsQuorum(p, n, n, out, k, h)
    <3>1. CASE h \in Complete(p, n)
      BY <3>1 DEF KnowsQuorum
    <3>2. CASE h \notin Complete(p, n)
      <4>1. /\ p = "commit" /\ h = g
            /\ ThresholdReached(commits[n][g] \union {m.from})
        BY <2>2, <2>5, <3>2 DEF Phase, Complete
      <4>2. /\ Counted(p, n, h) # {}
            /\ ThresholdReached(Counted(p, n, h) \union {m.from})
        BY <2>2, <4>1 DEF Counted
      <4> QED
        BY <1>2, <1>6, <2>1, <4>1, <4>2, QuorumTold
    <3> QED
      BY <3>1, <3>2
  <2> QED
    BY <2>3, <2>4, <2>5 DEF Tells
<1> QED
  BY <1>1, <1>3, <1>4, <1>5, <1>6, ReceiveHere

(***************************************************************************)
(* A message that has been handled is known, whether it was accepted or    *)
(* ignored.                                                                *)
(***************************************************************************)
LEMMA AcceptedIsHandled ==
  ASSUME BaseInv, NEW l \in Link, l[2] \in Node, NEW m \in msgs,
         m = chan[l][1], Receive(l[2], m)
  PROVE  Handled(l)
<1> DEFINE n == l[2]
<1>1. TypeOK /\ n \in Node
  BY DEF BaseInv, ZombieInv, TypeInv
<1>2. ASSUME NEW h \in Hash, m.type = "pre_prepare", m.block.hash = h
      PROVE  Ready(n, h)'
  <2>1. PoolsBlock(n, m.block)
    BY <1>1, <1>2, ReceiveHere
  <2> QED
    BY <1>2, <2>1 DEF PoolsBlock, Ready
<1>3. ASSUME NEW p \in Phase, NEW h \in Hash, NEW v \in Node, m = Vote(p, h, v)
      PROVE  v \in Counted(p, n, h)'
  <2>1. m.type = p /\ m.blockHash = h /\ m.from = v
    BY <1>3 DEF Vote
  <2>2. CASE p = "prepare"
    <3>1. CountsPrepare(n, h, v)
      BY <1>1, <2>1, <2>2, ReceiveHere
    <3> QED
      BY <2>2, <3>1 DEF CountsPrepare, Counted
  <2>3. CASE p = "commit"
    <3>1. CountsCommit(n, h, v)
      BY <1>1, <2>1, <2>3, ReceiveHere
    <3> QED
      BY <2>3, <3>1 DEF CountsCommit, Counted
  <2> QED
    BY <2>2, <2>3 DEF Phase
<1> QED
  BY <1>2, <1>3 DEF Handled

LEMMA IgnoredIsHandled ==
  ASSUME BaseInv, Node \subseteq Validator, NEW l \in Link, l[1] # l[2],
         l[2] \in Steady, Queue(chan[l]), chan[l] # <<>>, Founded(l),
         ~ Accepts(l[2], chan[l][1]), UNCHANGED vars
  PROVE  Handled(l)
<1> DEFINE n == l[2]
<1>1. PICK m : m = chan[l][1]
  OBVIOUS
<1>2. RestsOnKnown(l[1], n, chan[l], 1)
  BY DEF Founded, Queue
<1>3. /\ m \in Message
      /\ m.type = "prepare" => Ready(n, m.blockHash)
      /\ m.type = "commit" => m.blockHash \in prepared[n]
  BY <1>1, <1>2, HeadRests
<1>4. OpensCommits(n) /\ PoolsWhatIsReady(n)
  BY DEF BaseInv, LocalInv
<1>5. UNCHANGED <<prepares, prepared, commits, committed>>
  BY DEF vars, voteVars
<1>6. ASSUME NEW h \in Hash, m.type = "pre_prepare", m.block.hash = h
      PROVE  Ready(n, h)'
  <2>1. m.block.proposer \in Validator
    BY <1>3, <1>6, MessageFields DEF Block
  <2>2. ~ AcceptsPrePrepare(n, m)
    BY <1>1, <1>6 DEF Accepts
  <2>3. Ready(n, h)
    BY <1>4, <1>6, <2>1, <2>2 DEF AcceptsPrePrepare, PoolsWhatIsReady, Ready
  <2> QED
    BY <1>5, <2>3 DEF Ready
<1>7. ASSUME NEW p \in Phase, NEW h \in Hash, NEW v \in Node, m = Vote(p, h, v)
      PROVE  h \in Complete(p, n)' \/ v \in Counted(p, n, h)'
  <2>1. m.type = p /\ m.blockHash = h /\ m.from = v /\ v \in Validator
    BY <1>7 DEF Vote
  <2>2. CASE p = "prepare"
    <3>1. ~ AcceptsPrepare(n, m) /\ Ready(n, h)
      BY <1>1, <1>3, <2>1, <2>2 DEF Accepts
    <3> QED
      BY <1>5, <2>1, <2>2, <3>1 DEF AcceptsPrepare, Ready, Counted, Complete
  <2>3. CASE p = "commit"
    <3>1. ~ AcceptsCommit(n, m) /\ h \in prepared[n]
      BY <1>1, <1>3, <2>1, <2>3 DEF Accepts
    <3>2. commits[n][h] # {} \/ h \in committed[n]
      BY <1>4, <3>1 DEF OpensCommits
    <3> QED
      BY <1>5, <2>1, <2>3, <3>1, <3>2 DEF AcceptsCommit, Counted, Complete
  <2> QED
    BY <2>2, <2>3 DEF Phase
<1> QED
  BY <1>1, <1>6, <1>7 DEF Handled

(***************************************************************************)
(* Every step of the mesh, as one socket sees it.                          *)
(***************************************************************************)
Carries(l, d, out) ==
  /\ Moves(l, d, out)
  /\ Len(out) > 0 => Running(l)
  /\ \A j \in 1 .. Len(out) : RestsOnKnown(l[1], l[1], out, j)
  /\ Running(l)' => Running(l) /\ Tells(l[1], out)

SocketStep(l) ==
  \/ chan'[l] = <<>> /\ ~ Running(l)'
  \/ \E d \in {0, 1}, out \in Seq(Message) : Carries(l, d, out)

SocketInv(l) == Founded(l) /\ (Running(l) => Relayed(l))

LEMMA SocketNext ==
  ASSUME TypeOK', NEW l \in Link, chan[l] \in Seq(Message), SocketInv(l),
         SocketStep(l)
  PROVE  SocketInv(l)'
<1>1. CASE chan'[l] = <<>> /\ ~ Running(l)'
  BY <1>1 DEF SocketInv, Founded
<1>2. ASSUME NEW d \in {0, 1}, NEW out \in Seq(Message), Carries(l, d, out)
      PROVE  SocketInv(l)'
  <2>1. Queue(out) /\ Queue(chan[l])
    BY DEF Queue
  <2>2. Founded(l)'
    BY <1>2, <2>1, FoundedNext DEF SocketInv, Carries
  <2>3. Running(l)' => Relayed(l)'
    BY <1>2, <2>1, RelayedNext, LinkEnds DEF SocketInv, Carries, TypeOK
  <2> QED
    BY <2>2, <2>3 DEF SocketInv
<1> QED
  BY <1>1, <1>2 DEF SocketStep

LEMMA SocketRests ==
  ASSUME NEW l \in Link, chan[l] \in Seq(Message), chan'[l] = chan[l],
         Keeps(l[2]), Running(l)' => Running(l) /\ Tells(l[1], <<>>)
  PROVE  SocketStep(l)
<1>1. <<>> \in Seq(Message)
  OBVIOUS
<1>2. Moves(l, 0, <<>>) /\ Len(<<>>) = 0
  BY DEF Moves
<1>3. Carries(l, 0, <<>>)
  BY <1>2 DEF Carries
<1> QED
  BY <1>1, <1>3 DEF SocketStep

LEMMA SocketDelivers ==
  ASSUME NEW l \in Link, chan[l] \in Seq(Message), chan[l] # <<>>,
         chan'[l] = Tail(chan[l]), Handled(l), Keeps(l[2]),
         Running(l)' => Running(l) /\ Tells(l[1], <<>>)
  PROVE  SocketStep(l)
<1>1. <<>> \in Seq(Message)
  OBVIOUS
<1>2. Moves(l, 1, <<>>) /\ Len(<<>>) = 0
  BY DEF Moves
<1>3. Carries(l, 1, <<>>)
  BY <1>2 DEF Carries
<1> QED
  BY <1>1, <1>3 DEF SocketStep

LEMMA SocketTakes ==
  ASSUME NEW l \in Link, chan[l] \in Seq(Message), NEW out \in Seq(Message),
         chan'[l] = chan[l] \o out, Keeps(l[2]), Running(l),
         Tells(l[1], out),
         \A j \in 1 .. Len(out) : RestsOnKnown(l[1], l[1], out, j)
  PROVE  SocketStep(l)
<1>1. Moves(l, 0, out)
  BY DEF Moves
<1>2. Carries(l, 0, out)
  BY <1>1 DEF Carries
<1> QED
  BY <1>2 DEF SocketStep
-----------------------------------------------------------------------------
(***************************************************************************)
(* The invariant of the mesh, over each of its steps.                      *)
(***************************************************************************)
OrderInv ==
  /\ \A n \in Node : Ordered(n)
  /\ \A l \in Link : SocketInv(l)

\* What every step may use.
Ground ==
  /\ BaseInv /\ NetInv /\ OrderInv
  /\ \A n \in Node : Keeps(n)

\* The steps of the nodes and the sockets.
InOrder ==
  /\ \A n \in Node : OrderedStep(n)
  /\ \A l \in Link : SocketStep(l)

LEMMA GroundHolds ==
  ASSUME SteadyMesh, BaseInv, NetInv, OrderInv, [MeshNext]_meshVars
  PROVE  Ground
<1>1. [Next]_vars
  BY NetStep
<1>2. \A n \in Node : n \in Steady /\ n \notin Restartable
  BY DEF SteadyMesh, Steady
<1> QED
  BY <1>1, <1>2, NodeKeeps DEF Ground, BaseInv

LEMMA GroundFacts ==
  ASSUME SteadyMesh, Ground
  PROVE  /\ TypeOK /\ open = Link
         /\ \A n \in Node : n \in Steady
         /\ \A l \in Link : /\ chan[l] \in Seq(Message) /\ Queue(chan[l])
                            /\ chan[l] \in Seq(msgs)
                            /\ l[1] \in Node /\ l[2] \in Node /\ l[1] # l[2]
<1>1. TypeOK /\ NetInv
  BY DEF Ground, BaseInv, ZombieInv, TypeInv
<1>2. \A l \in Link : chan[l] \in Seq(msgs)
  BY <1>1 DEF NetInv
<1>3. \A l \in Link : chan[l] \in Seq(Message)
  BY <1>1, <1>2, SeqGrows DEF TypeOK
<1>4. \A l \in Link : Queue(chan[l])
  BY <1>3 DEF Queue
<1>5. open = Link /\ \A n \in Node : n \in Steady
  BY <1>1 DEF SteadyMesh, NetInv, Steady
<1> QED
  BY <1>1, <1>2, <1>3, <1>4, <1>5, LinkEnds, MeshAssumption

\* A socket no message moves on, and whose sender takes nothing in.
LEMMA SocketStays ==
  ASSUME SteadyMesh, Ground, NEW l \in Link, chan'[l] = chan[l],
         alive' \subseteq alive, SettlesBlocks(l[1])
  PROVE  SocketStep(l)
<1>1. Running(l)' => Running(l)
  BY DEF Running
<1>2. Keeps(l[2]) /\ chan[l] \in Seq(Message)
  BY GroundFacts DEF Ground
<1>3. Tells(l[1], <<>>)
  BY NothingToTell
<1> QED
  BY <1>1, <1>2, <1>3, SocketRests

LEMMA UntouchedSettles ==
  ASSUME UNCHANGED <<poolVars, voteVars, chainVars, pendingCommits>>, NEW n
  PROVE  SettlesBlocks(n)
  BY DEF poolVars, voteVars, chainVars, SettlesBlocks, Pools, OtherPools

\* Nothing moves and nothing is taken in.
LEMMA SettledInOrder ==
  ASSUME SteadyMesh, Ground, \A n \in Node : SettlesBlocks(n),
         UNCHANGED <<chan, alive>>
  PROVE  InOrder
<1>1. \A l \in Link : SocketStep(l)
  BY GroundFacts, SocketStays
<1> QED
  BY <1>1 DEF InOrder, OrderedStep

LEMMA AcceptInOrder ==
  ASSUME SteadyMesh, Ground, NEW k \in Link, Deliver(k), Accept(k)
  PROVE  InOrder
<1> DEFINE n == k[2]
           m == Head(chan[k])
<1>1. /\ TypeOK /\ BaseInv /\ open = Link
      /\ n \in Node /\ n \in Steady /\ k[1] # n
      /\ chan[k] \in Seq(msgs) /\ chan[k] \in Seq(Message) /\ Queue(chan[k])
      /\ chan[k] # <<>> /\ n \in alive /\ UNCHANGED <<open, alive>>
  BY GroundFacts DEF Ground, Deliver
<1>2. m \in msgs /\ m = chan[k][1] /\ Receive(n, m)
  BY <1>1 DEF Accept
<1>3. PICK out : out = Outbox(n, m)
  OBVIOUS
<1>4. m.type = "pre_prepare" => Follows(n, m.block.hash)
  <2>1. RestsOnKnown(k[1], n, chan[k], 1)
    BY <1>1 DEF Ground, OrderInv, SocketInv, Founded, Queue
  <2> QED
    BY <1>1, <1>2, <2>1, HeadRests
<1>5. /\ Tells(n, out) /\ out \in Seq(Message)
      /\ \A j \in 1 .. Len(out) : RestsOnKnown(n, n, out, j)
  <2>1. Tells(n, out)
    BY <1>1, <1>2, <1>3, OutboxTells
  <2>2. \A j \in 1 .. Len(out) : RestsOnKnown(n, n, out, j)
    BY <1>1, <1>2, <1>3, <1>4, OutboxRests
  <2>3. m \in Message /\ OwnVotes(n, m) \subseteq Message
    BY <1>1, <1>2, OwnVotesType DEF TypeOK
  <2>4. out \in Seq(Message)
    <3>1. CASE OwnVotes(n, m) = {}
      BY <1>3, <2>3, <3>1 DEF Outbox
    <3>2. CASE OwnVotes(n, m) # {}
      <4>1. (CHOOSE v \in OwnVotes(n, m) : TRUE) \in Message
        BY <2>3, <3>2
      <4> QED
        BY <1>3, <2>3, <3>2, <4>1 DEF Outbox
    <3> QED
      BY <3>1, <3>2
  <2> QED
    BY <2>1, <2>2, <2>4
<1>6. \A j \in Node \ {n} : SettlesBlocks(j)
  BY <1>1, <1>2, ReceiveElsewhere DEF SettlesBlocks
<1>7. \A j \in Node : OrderedStep(j)
  <2>1. OrderedStep(n)
    BY <1>1, <1>2, <1>4, ReceiveHere DEF OrderedStep, SettlesBlocks
  <2> QED
    BY <1>6, <2>1 DEF OrderedStep
<1>8. ASSUME NEW l \in Link
      PROVE  SocketStep(l)
  <2>1. /\ chan[l] \in Seq(Message) /\ Keeps(l[2])
        /\ l[1] \in Node /\ l[2] \in Node
    BY GroundFacts DEF Ground
  <2>2. chan'[l] = Sent(n, IF l = k THEN Tail(chan[k]) ELSE chan[l], l, out)
    BY <1>3 DEF Accept
  <2>3. CASE l = k
    <3>1. chan'[l] = Tail(chan[l])
      BY <1>1, <2>2, <2>3 DEF Sent
    <3>2. Handled(l)
      BY <1>1, <1>2, <2>3, AcceptedIsHandled
    <3>3. Tells(l[1], <<>>) /\ (Running(l)' => Running(l))
      BY <1>1, <1>6, <2>1, <2>3, NothingToTell DEF Running
    <3> QED
      BY <1>1, <2>1, <2>3, <3>1, <3>2, <3>3, SocketDelivers
  <2>4. CASE l # k /\ l[1] = n /\ l[2] \in alive
    <3>1. chan'[l] = chan[l] \o out
      BY <1>1, <2>2, <2>4 DEF Sent
    <3>2. Running(l)
      BY <1>1, <2>4 DEF Running
    <3> QED
      BY <1>5, <2>1, <2>4, <3>1, <3>2, SocketTakes
  <2>5. CASE l # k /\ ~ (l[1] = n /\ l[2] \in alive)
    <3>1. chan'[l] = chan[l]
      BY <2>2, <2>5 DEF Sent
    <3>2. Running(l)' => Running(l) /\ Tells(l[1], <<>>)
      BY <1>1, <1>6, <2>1, <2>5, NothingToTell DEF Running
    <3> QED
      BY <2>1, <3>1, <3>2, SocketRests
  <2> QED
    BY <2>3, <2>4, <2>5
<1> QED
  BY <1>7, <1>8 DEF InOrder

LEMMA IgnoreInOrder ==
  ASSUME SteadyMesh, Ground, NEW k \in Link, Deliver(k), Ignore(k)
  PROVE  InOrder
<1>1. /\ BaseInv /\ Founded(k) /\ chan[k] \in Seq(Message) /\ Queue(chan[k])
      /\ k[2] \in Steady /\ k[1] # k[2] /\ Node \subseteq Validator
      /\ chan[k] # <<>> /\ UNCHANGED <<vars, alive>> /\ Keeps(k[2])
  BY GroundFacts
     DEF Ground, OrderInv, SocketInv, SteadyMesh, Deliver, Ignore
<1>2. \A n : SettlesBlocks(n)
  BY <1>1, UntouchedSettles DEF vars
<1>3. ~ Accepts(k[2], chan[k][1])
  BY <1>1 DEF Ignore
<1>4. Handled(k)
  BY <1>1, <1>3, IgnoredIsHandled
<1>5. chan'[k] = Tail(chan[k]) /\ \A l \in Link \ {k} : chan'[l] = chan[l]
  BY DEF Ignore, Ground, NetInv
<1>6. Tells(k[1], <<>>) /\ (Running(k)' => Running(k))
  BY <1>1, <1>2, NothingToTell DEF Running
<1>7. SocketStep(k)
  BY <1>1, <1>4, <1>5, <1>6, SocketDelivers
<1>8. \A l \in Link \ {k} : SocketStep(l)
  BY <1>1, <1>2, <1>5, SocketStays
<1> QED
  BY <1>2, <1>7, <1>8 DEF InOrder, OrderedStep

\* A message that a node sends of its own accord.
LEMMA SendInOrder ==
  ASSUME SteadyMesh, Ground, NEW n \in Node, n \in alive, NEW m \in Message,
         Send(n, <<m>>), UNCHANGED alive,
         UNCHANGED <<poolVars, voteVars, chainVars, pendingCommits>>,
         RestsOnKnown(n, n, <<m>>, 1)
  PROVE  InOrder
<1>1. \A k : SettlesBlocks(k)
  BY UntouchedSettles
<1>2. ASSUME NEW l \in Link
      PROVE  SocketStep(l)
  <2>1. chan[l] \in Seq(Message) /\ Keeps(l[2]) /\ open = Link
    BY GroundFacts DEF Ground
  <2>2. chan'[l] = Sent(n, chan[l], l, <<m>>)
    BY DEF Send
  <2>3. CASE l[1] = n /\ l[2] \in alive
    <3>1. chan'[l] = chan[l] \o <<m>> /\ <<m>> \in Seq(Message)
      BY <2>1, <2>2, <2>3 DEF Sent
    <3>2. Running(l) /\ Tells(l[1], <<m>>)
      BY <1>1, <2>3, NothingToTell DEF Running
    <3>3. \A j \in 1 .. Len(<<m>>) : RestsOnKnown(l[1], l[1], <<m>>, j)
      <4>1. \A j \in 1 .. Len(<<m>>) : j = 1
        OBVIOUS
      <4> QED
        BY <2>3, <4>1
    <3> QED
      BY <2>1, <3>1, <3>2, <3>3, SocketTakes
  <2>4. CASE ~ (l[1] = n /\ l[2] \in alive)
    <3>1. chan'[l] = chan[l]
      BY <2>2, <2>4 DEF Sent
    <3> QED
      BY <1>1, <3>1, SocketStays
  <2> QED
    BY <2>3, <2>4
<1> QED
  BY <1>1, <1>2 DEF InOrder, OrderedStep

LEMMA ProposeInOrder ==
  ASSUME SteadyMesh, Ground, NEW n \in Node, MeshPropose(n)
  PROVE  InOrder
<1>1. PICK data \in PendingTransactions(n) :
        Propose(n, data) /\ Send(n, <<PrePrepareMsg(NewBlock(n, data))>>)
  BY DEF MeshPropose
<1> DEFINE b == NewBlock(n, data)
           m == PrePrepareMsg(b)
<1>2. /\ BaseInv /\ AgreementInv /\ TypeInv /\ HashIsHeight
      /\ Completed(n) /\ n \in Steady
  BY GroundFacts
     DEF Ground, BaseInv, KeptInv, ZombieInv, CompletedFirst, AgreementInv
<1>3. m \in Message
  BY <1>1, <1>2, NewBlockType, NewMessages
<1>4. /\ n = Proposer /\ LatestBlock(n).sequenceId + 1 = proposedSequenceId[n]
      /\ proposedSequenceId[n] = minted + 1 /\ minted \in Nat
  BY <1>1, <1>2
     DEF Propose, MayPropose, AgreementInv, TypeInv, TypeOK, ProposalInv, Hash
<1>5. Len(chain[n]) = minted + 1
  BY <1>2, <1>4, ChainHashes
<1>6. minted = 0 \/ minted \in committed[n]
  <2> SUFFICES ASSUME minted # 0 PROVE minted \in committed[n]
    OBVIOUS
  <2>1. minted + 1 \in 1 .. Len(chain[n]) /\ minted + 1 # 1
    BY <1>4, <1>5
  <2>2. chain[n][minted + 1].hash = minted
    BY <1>2, <1>4, <2>1, ChainHashes
  <2>3. minted + 1 \in Above(n)
    BY <1>2, <2>1 DEF Above, TypeInv, TypeOK
  <2> QED
    BY <1>2, <2>2, <2>3 DEF Completed
<1>7. m.type = "pre_prepare" /\ m.block = b /\ b.hash = minted + 1
  BY DEF PrePrepareMsg, NewBlock
<1>8. PICK out : out = <<m>>
  OBVIOUS
<1>9. RestsOnKnown(n, n, out, 1)
  <2>1. /\ out[1].type = "pre_prepare" /\ out[1].block.hash = minted + 1
        /\ minted + 1 >= 1
        /\ minted + 1 = 1 \/ (minted + 1) - 1 \in committed[n]
    BY <1>4, <1>6, <1>7, <1>8
  <2> QED
    BY <2>1 DEF RestsOnKnown, KnowsQuorum, Complete
<1> QED
  BY <1>1, <1>3, <1>8, <1>9, SendInOrder DEF MeshPropose, Propose

LEMMA SubmitInOrder ==
  ASSUME SteadyMesh, Ground, NEW n \in Node, NEW t \in Tx, MeshSubmit(n, t)
  PROVE  InOrder
<1>1. TxMsg(t, n) \in Message /\ TxMsg(t, n).type = "transaction"
  BY NewMessages DEF TxMsg
<1>2. RestsOnKnown(n, n, <<TxMsg(t, n)>>, 1)
  BY <1>1 DEF RestsOnKnown
<1> QED
  BY <1>1, <1>2, SendInOrder DEF MeshSubmit, Submit

LEMMA CutInOrder ==
  ASSUME SteadyMesh, Ground, UNCHANGED vars, alive' \subseteq alive,
         \A l \in Link : \/ chan'[l] = chan[l]
                         \/ chan'[l] = <<>> /\ ~ Running(l)'
  PROVE  InOrder
<1>1. \A n : SettlesBlocks(n)
  BY UntouchedSettles DEF vars
<1>2. \A l \in Link : SocketStep(l)
  BY <1>1, SocketStays DEF SocketStep
<1> QED
  BY <1>1, <1>2 DEF InOrder, OrderedStep

LEMMA EveryStepInOrder ==
  ASSUME SteadyMesh, Ground, [MeshNext]_meshVars
  PROVE  InOrder
<1>1. TypeOK
  BY GroundFacts
<1>2. CASE UNCHANGED meshVars \/ \E l \in Link : Connect(l)
  BY <1>2, CutInOrder DEF meshVars, netVars, Connect
<1>3. ASSUME NEW k \in Link, Deliver(k)
      PROVE  InOrder
  BY <1>3, AcceptInOrder, IgnoreInOrder DEF Deliver
<1>4. ASSUME NEW k \in Link, Lose(k)
      PROVE  InOrder
  <2>1. chan' = [chan EXCEPT ![k] = <<>>] /\ chan \in [Link -> Seq(msgs)]
    BY <1>4 DEF Lose, Ground, NetInv
  <2>2. ~ Running(k)' /\ UNCHANGED <<vars, alive>>
    BY <1>4 DEF Lose, Running
  <2> QED
    BY <2>1, <2>2, CutInOrder
<1>5. ASSUME NEW n \in Node, Crash(n)
      PROVE  InOrder
  <2>1. \A l \in Link : \/ chan'[l] = chan[l]
                        \/ chan'[l] = <<>> /\ ~ Running(l)'
    BY <1>5 DEF Crash, Running
  <2> QED
    BY <1>5, <2>1, CutInOrder DEF Crash
<1>6. ASSUME NEW n \in Node, MeshContinue(n)
      PROVE  InOrder
  BY <1>1, <1>6, ContinueSettles, SettledInOrder DEF MeshContinue, netVars
<1>7. ASSUME NEW n \in Node, MeshDrain(n)
      PROVE  InOrder
  <2>1. \A j \in Node : SettlesBlocks(j)
    BY <1>1, <1>7, DrainSettles, UntouchedSettles
       DEF MeshDrain, StartDrain, EndTick
  <2> QED
    BY <1>7, <2>1, SettledInOrder DEF MeshDrain, netVars
<1> QED
  BY <1>2, <1>3, <1>4, <1>5, <1>6, <1>7, ProposeInOrder, SubmitInOrder,
     MeshAssumption DEF MeshNext
-----------------------------------------------------------------------------
LEMMA OrderInit == MeshInit => OrderInv
<1> SUFFICES ASSUME MeshInit PROVE OrderInv
  OBVIOUS
<1>1. /\ \A n \in Node, h \in Hash : ~ Ready(n, h)
      /\ \A n \in Node, p \in Phase, h \in Hash : Counted(p, n, h) = {}
      /\ \A n \in Node, p \in Phase : Complete(p, n) = {}
  BY DEF MeshInit, Init, Ready, Counted, Complete
<1>2. ASSUME NEW n \in Node
      PROVE  Ordered(n)
  BY <1>1 DEF Ordered, MeshInit, Init
<1>3. ASSUME NEW l \in Link
      PROVE  SocketInv(l)
  <2>1. Len(chan[l]) = 0 /\ l[1] \in Node
    BY LinkEnds DEF MeshInit
  <2>2. Founded(l)
    BY <2>1 DEF Founded
  <2>3. Relayed(l)
    BY <1>1, <2>1 DEF Relayed
  <2> QED
    BY <2>2, <2>3 DEF SocketInv
<1> QED
  BY <1>2, <1>3 DEF OrderInv

LEMMA OrderNext ==
  ASSUME SteadyMesh, BaseInv, BaseInv', NetInv, OrderInv, [MeshNext]_meshVars
  PROVE  OrderInv'
<1>1. Ground
  BY GroundHolds
<1>2. InOrder
  BY <1>1, EveryStepInOrder
<1>3. TypeOK'
  BY DEF BaseInv, ZombieInv, TypeInv
<1>4. ASSUME NEW n \in Node
      PROVE  Ordered(n)'
  BY <1>1, <1>2, GroundFacts, OrderedNext DEF InOrder, OrderInv
<1>5. ASSUME NEW l \in Link
      PROVE  SocketInv(l)'
  BY <1>1, <1>2, <1>3, GroundFacts, SocketNext DEF InOrder, OrderInv
<1> QED
  BY <1>4, <1>5 DEF OrderInv

LEMMA OrderInvariant ==
  ASSUME SteadyMesh
  PROVE  MeshSpec => [](BaseInv /\ NetInv /\ OrderInv)
<1>1. Spec => []BaseInv
  BY BaseInvariant DEF SteadyMesh
<1>2. MeshInit => OrderInv
  BY OrderInit
<1>3. BaseInv /\ BaseInv' /\ NetInv /\ OrderInv /\ [MeshNext]_meshVars
        => OrderInv'
  BY OrderNext
<1> QED
  BY <1>1, <1>2, <1>3, MeshImplementsConsensus, NetInvariant, PTL DEF MeshSpec
-----------------------------------------------------------------------------
\* In a steady mesh of any shape, a node that is handed a vote has accepted the
\* block or prepared it already: the pools, which drop a vote that comes too
\* early for good (p2p_server.js:179, 216), never drop one that was needed.
THEOREM NoVoteIsEarly ==
  ASSUME SteadyMesh
  PROVE  MeshSpec => []NoEarlyVote
<1>1. BaseInv /\ NetInv /\ OrderInv => NoEarlyVote
  <2> SUFFICES ASSUME BaseInv, NetInv, OrderInv, NEW l \in Link, chan[l] # <<>>
               PROVE  LET m == Head(chan[l])
                          n == l[2]
                      IN  /\ m.type = "prepare" =>
                               \/ prepares[n][m.blockHash] # {}
                               \/ m.blockHash \in prepared[n]
                          /\ m.type = "commit" =>
                               \/ commits[n][m.blockHash] # {}
                               \/ m.blockHash \in committed[n]
    BY DEF NoEarlyVote
  <2> DEFINE m == chan[l][1]
             n == l[2]
  <2>1. TypeOK /\ n \in Steady /\ l[1] # n
    BY LinkEnds, MeshAssumption
       DEF BaseInv, ZombieInv, TypeInv, SteadyMesh, Steady
  <2>2. chan[l] \in Seq(Message)
    BY <2>1, SeqGrows DEF NetInv, TypeOK
  <2>3. Queue(chan[l]) /\ Head(chan[l]) = m /\ 1 \in 1 .. Len(chan[l])
    BY <2>2 DEF Queue
  <2>4. RestsOnKnown(l[1], n, chan[l], 1)
    BY <2>3 DEF OrderInv, SocketInv, Founded
  <2>5. /\ m.type = "prepare" => Ready(n, m.blockHash)
        /\ m.type = "commit" => m.blockHash \in prepared[n]
    BY <2>1, <2>3, <2>4, HeadRests
  <2>6. OpensCommits(n)
    BY <2>1 DEF BaseInv, LocalInv
  <2> QED
    BY <2>3, <2>5, <2>6 DEF Ready, OpensCommits
<1> QED
  BY <1>1, OrderInvariant, PTL

\* In a steady mesh of any shape, commits complete in the order of the
\* sequence ids at every node: no block is refused and put off, however the
\* messages of different peers overtake each other.
THEOREM CommitsComeInOrder ==
  ASSUME SteadyMesh
  PROVE  MeshSpec => []CommitsInOrder
<1>1. OrderInv => CommitsInOrder
  BY DEF OrderInv, Ordered, CommitsInOrder
<1> QED
  BY <1>1, OrderInvariant, PTL
-----------------------------------------------------------------------------
(***************************************************************************)
(* Every block proposed is offered to each running peer of the proposer.   *)
(***************************************************************************)
Offered(l) ==
  l[1] = Proposer /\ Running(l) =>
    \A h \in 1 .. minted : KnowsBlock(l[2], chan[l], Len(chan[l]), h)

OfferedInv == \A l \in Link : Offered(l)

LEMMA OfferedInit == MeshInit => OfferedInv
  BY DEF MeshInit, Init, OfferedInv, Offered

LEMMA MintedStep ==
  ASSUME [MeshNext]_meshVars
  PROVE  minted' = minted \/ \E n \in Node : MeshPropose(n)
<1>1. CASE UNCHANGED meshVars
  BY <1>1 DEF meshVars, vars, proposalVars
<1>2. ASSUME NEW l \in Link, Deliver(l) \/ Connect(l) \/ Lose(l)
      PROVE  minted' = minted
  BY <1>2
     DEF Deliver, Accept, Ignore, Connect, Lose, Receive, vars, proposalVars
<1>3. ASSUME NEW n \in Node, NEW t \in Tx, MeshSubmit(n, t)
      PROVE  minted' = minted
  BY <1>3 DEF MeshSubmit, Submit, proposalVars
<1>4. ASSUME NEW n \in Node, MeshContinue(n) \/ MeshDrain(n)
      PROVE  minted' = minted
  BY <1>4 DEF MeshContinue, MeshDrain, Continue, StartDrain, DrainKey, EndTick,
              proposalVars
<1>5. ASSUME NEW n \in Crashable, Crash(n)
      PROVE  minted' = minted
  BY <1>5 DEF Crash, vars, proposalVars
<1> QED
  BY <1>1, <1>2, <1>3, <1>4, <1>5 DEF MeshNext

LEMMA OfferedStays ==
  ASSUME NEW l \in Link, chan[l] \in Seq(Message), minted \in Hash,
         Offered(l), SocketStep(l), minted' = minted
  PROVE  Offered(l)'
<1>1. CASE chan'[l] = <<>> /\ ~ Running(l)'
  BY <1>1 DEF Offered
<1>2. ASSUME NEW d \in {0, 1}, NEW out \in Seq(Message), Carries(l, d, out),
             l[1] = Proposer, Running(l)', NEW h \in 1 .. minted
      PROVE  KnowsBlock(l[2], chan[l], Len(chan[l]), h)'
  <2>1. PICK k \in Nat : k = Len(chan[l])
    OBVIOUS
  <2>2. h \in Hash
    BY BoundAssumption DEF Hash
  <2>3. KnowsBlock(l[2], chan[l], k, h)
    BY <1>2, <2>1 DEF Offered, Carries
  <2>4. Moves(l, d, out) /\ d <= k
    BY <1>2, <2>1 DEF Carries, Moves
  <2>5. KnowsBlock(l[2], chan[l], k - d, h)'
    BY <2>1, <2>2, <2>3, <2>4, StillKnowsBlock
  <2>6. /\ Len(out) \in Nat /\ k - d \in Nat
        /\ Len(chan'[l]) = (k - d) + Len(out)
    BY <2>1, <2>4 DEF Moves
  <2>7. 1 .. k - d \subseteq 1 .. Len(chan'[l])
    BY <2>6
  <2> QED
    BY <2>5, <2>7 DEF KnowsBlock, HasBlock
<1> QED
  BY <1>1, <1>2 DEF SocketStep, Offered

LEMMA OfferedWhenProposed ==
  ASSUME SteadyMesh, Ground, NEW n \in Node, MeshPropose(n),
         NEW l \in Link, Offered(l)
  PROVE  Offered(l)'
<1>1. PICK data \in PendingTransactions(n) :
        Propose(n, data) /\ Send(n, <<PrePrepareMsg(NewBlock(n, data))>>)
  BY DEF MeshPropose
<1> DEFINE m == PrePrepareMsg(NewBlock(n, data))
<1>2. m.type = "pre_prepare" /\ m.block.hash = minted + 1
  BY DEF PrePrepareMsg, NewBlock
<1>3. /\ n = Proposer /\ minted' = minted + 1 /\ minted \in Nat
      /\ UNCHANGED <<prepares, prepared, alive>>
  BY <1>1, GroundFacts
     DEF MeshPropose, Propose, MayPropose, voteVars, TypeOK, Hash
<1> SUFFICES ASSUME l[1] = Proposer, Running(l), NEW h \in 1 .. minted + 1
             PROVE  KnowsBlock(l[2], chan[l], Len(chan[l]), h)'
  BY <1>3 DEF Offered, Running
<1>4. PICK k \in Nat : k = Len(chan[l]) /\ chan[l] \in Seq(Message)
  BY GroundFacts
<1>5. chan'[l] = chan[l] \o <<m>>
  BY <1>1, <1>3, GroundFacts DEF Send, Sent, Running
<1>6. /\ Len(chan'[l]) = k + 1 /\ chan'[l][k + 1] = m
      /\ \A j \in 1 .. k : chan'[l][j] = chan[l][j]
  BY <1>4, <1>5
<1>7. CASE h \in 1 .. minted
  <2>1. KnowsBlock(l[2], chan[l], k, h)
    BY <1>4, <1>7 DEF Offered
  <2>2. CASE Ready(l[2], h)
    BY <1>3, <2>2 DEF Ready, KnowsBlock
  <2>3. CASE HasBlock(chan[l], k, h)
    <3>1. 1 .. k \subseteq 1 .. k + 1
      OBVIOUS
    <3> QED
      BY <1>6, <2>3, <3>1 DEF HasBlock, KnowsBlock
  <2> QED
    BY <2>1, <2>2, <2>3 DEF KnowsBlock
<1>8. CASE h = minted + 1
  <2>1. k + 1 \in 1 .. k + 1
    OBVIOUS
  <2> QED
    BY <1>2, <1>6, <1>8, <2>1 DEF HasBlock, KnowsBlock
<1> QED
  BY <1>3, <1>7, <1>8

LEMMA OfferedNext ==
  ASSUME SteadyMesh, BaseInv, NetInv, OrderInv, OfferedInv,
         [MeshNext]_meshVars
  PROVE  OfferedInv'
<1>1. Ground /\ InOrder
  BY GroundHolds, EveryStepInOrder
<1>2. minted \in Hash /\ \A l \in Link : chan[l] \in Seq(Message)
  BY <1>1, GroundFacts DEF TypeOK
<1> SUFFICES ASSUME NEW l \in Link PROVE Offered(l)'
  BY DEF OfferedInv
<1>3. Offered(l) /\ SocketStep(l)
  BY <1>1 DEF OfferedInv, InOrder
<1> QED
  BY <1>1, <1>2, <1>3, MintedStep, OfferedStays, OfferedWhenProposed
-----------------------------------------------------------------------------
(***************************************************************************)
(* When nothing is under way between the nodes that run, they know the     *)
(* same blocks and votes, and those are enough.                            *)
(***************************************************************************)
\* Every node lists every other among its PEERS.
EveryPairLinked == \A n, k \in Node : n # k => <<n, k>> \in Link

AtRest ==
  /\ Proposer \in alive /\ alive # {Proposer} /\ ThresholdReached(alive)
  /\ \A l \in Link : Running(l) => chan[l] = <<>>

RestedMesh ==
  /\ SteadyMesh /\ EveryPairLinked
  /\ BaseInv /\ NetInv /\ OrderInv /\ OfferedInv /\ AtRest

LEMMA RestFacts ==
  ASSUME RestedMesh
  PROVE  /\ TypeOK /\ alive \subseteq Node
         /\ \A n \in alive : /\ n \in Steady
                             /\ OwnVoteFirst(n) /\ NoticesQuorum(n)
                             /\ OpensCommits(n)
<1>1. TypeOK /\ alive \subseteq Node
  BY DEF RestedMesh, BaseInv, ZombieInv, TypeInv, NetInv
<1>2. \A n \in alive : n \in Steady
  BY <1>1 DEF RestedMesh, SteadyMesh, Steady
<1> QED
  BY <1>1, <1>2 DEF RestedMesh, BaseInv, LocalInv

\* Between two nodes that run there is a socket, and it is empty.
LEMMA RestingSocket ==
  ASSUME RestedMesh, NEW w \in alive, NEW n \in alive, w # n
  PROVE  \E l \in Link : /\ l[1] = w /\ l[2] = n /\ Running(l)
                         /\ Len(chan[l]) = 0 /\ Relayed(l) /\ Offered(l)
<1> DEFINE l == <<w, n>>
<1>1. l \in Link /\ l[1] = w /\ l[2] = n
  BY RestFacts DEF RestedMesh, EveryPairLinked
<1>2. Running(l)
  BY <1>1 DEF Running
<1>3. chan[l] = <<>>
  BY <1>1, <1>2 DEF RestedMesh, AtRest
<1>4. Relayed(l) /\ Offered(l)
  BY <1>1, <1>2 DEF RestedMesh, OrderInv, SocketInv, OfferedInv
<1> QED
  BY <1>1, <1>2, <1>3, <1>4

LEMMA BlocksAreKnown ==
  ASSUME RestedMesh, NEW h \in 1 .. minted, NEW n \in alive
  PROVE  Ready(n, h)
<1>1. h \in Hash
  BY RestFacts, BoundAssumption DEF TypeOK, Hash
<1>2. ASSUME NEW k \in alive \ {Proposer}
      PROVE  Ready(k, h)
  <2>1. PICK l \in Link : /\ l[1] = Proposer /\ l[2] = k /\ Running(l)
                          /\ Len(chan[l]) = 0 /\ Offered(l)
    BY <1>2, RestingSocket DEF RestedMesh, AtRest
  <2> QED
    BY <2>1 DEF Offered, KnowsBlock, HasBlock
<1>3. CASE n = Proposer
  <2>1. PICK k \in alive : k # Proposer
    BY DEF RestedMesh, AtRest
  <2>2. PICK l \in Link : /\ l[1] = k /\ l[2] = n
                          /\ Len(chan[l]) = 0 /\ Relayed(l)
    BY <1>3, <2>1, RestingSocket
  <2>3. Ready(k, h)
    BY <1>2, <2>1
  <2> QED
    BY <1>1, <2>2, <2>3 DEF Relayed, KnowsBlock, HasBlock
<1> QED
  BY <1>2, <1>3

\* A phase that every node has begun every node has completed.
LEMMA PhaseCompletes ==
  ASSUME RestedMesh, NEW p \in Phase, NEW h \in Hash,
         \A n \in alive : Counted(p, n, h) # {} \/ h \in Complete(p, n),
         NEW n \in alive
  PROVE  h \in Complete(p, n)
<1>1. CASE \E k \in alive : k # n /\ h \in Complete(p, k)
  <2>1. PICK k \in alive : k # n /\ h \in Complete(p, k)
    BY <1>1
  <2>2. PICK l \in Link : /\ l[1] = k /\ l[2] = n
                          /\ Len(chan[l]) = 0 /\ Relayed(l)
    BY <2>1, RestingSocket
  <2>3. KnowsQuorum(p, k, n, chan[l], 0, h)
    BY <2>1, <2>2 DEF Relayed
  <2>4. TypeOK /\ n \in Node /\ NoticesQuorum(n)
    BY RestFacts
  <2> QED
    BY <2>1, <2>3, <2>4, QuorumNoticed
<1>2. CASE /\ \A k \in alive \ {n} : h \notin Complete(p, k)
           /\ h \notin Complete(p, n)
  <2>1. ASSUME NEW k \in alive
        PROVE  k \in Counted(p, k, h)
    BY <1>2, RestFacts DEF OwnVoteFirst
  <2>2. ASSUME NEW k \in alive, k # n
        PROVE  k \in Counted(p, n, h)
    <3>1. PICK l \in Link : /\ l[1] = k /\ l[2] = n
                            /\ Len(chan[l]) = 0 /\ Relayed(l)
      BY <2>2, RestingSocket
    <3>2. Hears(p, n, chan[l], 0, h, k)
      BY <1>2, <2>1, <3>1 DEF Relayed
    <3> QED
      BY <3>2 DEF Hears, Has
  <2>3. alive \subseteq Counted(p, n, h) /\ Counted(p, n, h) \subseteq Node
    BY <2>1, <2>2, RestFacts DEF TypeOK, Phase, Counted
  <2>4. IsFiniteSet(Counted(p, n, h))
    BY <2>3, NodeAssumption, FS_Subset
  <2>5. /\ Cardinality(alive) <= Cardinality(Counted(p, n, h))
        /\ Cardinality(alive) \in Nat /\ Cardinality(Counted(p, n, h)) \in Nat
    BY <2>3, <2>4, FS_Subset, FS_CardinalityType
  <2>6. ThresholdReached(Counted(p, n, h))
    BY <2>5, BoundAssumption DEF RestedMesh, AtRest, ThresholdReached
  <2>7. Counted(p, n, h) \ {n} # {}
    BY <2>3 DEF RestedMesh, AtRest
  <2> QED
    BY <2>6, <2>7, RestFacts DEF NoticesQuorum
<1> QED
  BY <1>1, <1>2

LEMMA BlocksAreCommitted ==
  ASSUME RestedMesh, NEW h \in 1 .. minted, NEW n \in alive
  PROVE  h \in committed[n]
<1>1. h \in Hash
  BY RestFacts, BoundAssumption DEF TypeOK, Hash
<1>2. \A k \in alive :
        Counted("prepare", k, h) # {} \/ h \in Complete("prepare", k)
  BY BlocksAreKnown DEF Ready, Counted, Complete
<1>3. \A k \in alive : h \in prepared[k]
  BY <1>1, <1>2, PhaseCompletes DEF Phase, Complete
<1>4. \A k \in alive :
        Counted("commit", k, h) # {} \/ h \in Complete("commit", k)
  BY <1>3, RestFacts DEF OpensCommits, Counted, Complete
<1> QED
  BY <1>1, <1>4, PhaseCompletes DEF Phase, Complete

\* In a steady mesh that joins every pair, the nodes that run, if they are
\* enough and the proposer is one of them, hold every block proposed as soon
\* as they have handled what they sent each other: no voting is ever stuck
\* with nothing left to wait for, whoever died in the middle of it.
THEOREM VotingNeverStalls ==
  ASSUME SteadyMesh, EveryPairLinked
  PROVE  MeshSpec => []NothingStalls
<1>1. BaseInv /\ NetInv /\ OrderInv /\ OfferedInv => NothingStalls
  <2> SUFFICES ASSUME RestedMesh, NEW n \in alive
               PROVE  Len(chain[n]) = minted + 1
    BY DEF RestedMesh, AtRest, Running, NothingStalls
  <2>1. /\ n \in Node /\ minted \in Nat /\ Ordered(n)
        /\ AgreementInv /\ HashIsHeight
    BY RestFacts
       DEF RestedMesh, BaseInv, KeptInv, OrderInv, TypeOK, Hash
  <2>2. Len(chain[n]) \in Nat /\ Len(chain[n]) >= 1
    BY <2>1, ChainHashes
  <2>3. minted < Len(chain[n])
    <3>1. CASE minted >= 1
      <4>1. minted \in committed[n]
        BY <2>1, <3>1, BlocksAreCommitted
      <4> QED
        BY <2>1, <4>1 DEF Ordered
    <3> QED
      BY <2>1, <2>2, <3>1
  <2>4. Len(chain[n]) <= minted + 1
    <3> SUFFICES ASSUME Len(chain[n]) > minted + 1 PROVE FALSE
      BY <2>1, <2>2
    <3>1. Len(chain[n]) \in 2 .. Len(chain[n])
      BY <2>1, <2>2
    <3>2. \A b \in Proposals : b.sequenceId \in 1 .. minted
      BY <2>1 DEF AgreementInv, ProposalInv
    <3> QED
      BY <2>1, <2>2, <3>1, <3>2 DEF AgreementInv, ChainInv
  <2> QED
    BY <2>1, <2>2, <2>3, <2>4
<1>2. MeshInit => OfferedInv
  BY OfferedInit
<1>3. BaseInv /\ NetInv /\ OrderInv /\ OfferedInv /\ [MeshNext]_meshVars
        => OfferedInv'
  BY OfferedNext
<1> QED
  BY <1>1, <1>2, <1>3, OrderInvariant, PTL DEF MeshSpec
=============================================================================
