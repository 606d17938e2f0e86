------------------------- MODULE NotaryVotes_proofs -------------------------
(***************************************************************************)
(* The quorum behind every block: MIN_APPROVALS different nodes sent their *)
(* prepare, and as many their commit, for every block in a chain.  A pool  *)
(* counts only voters whose vote was broadcast, a commit pool is opened    *)
(* only by a prepare quorum, and a block whose commits are complete stays  *)
(* certified on its way through a continuation, the pending commits and    *)
(* the drain loop.                                                         *)
(***************************************************************************)
EXTENDS NotaryConsensus_proofs

Quorum(type, h) == Cardinality(Voters(type, h)) >= MinApprovals
Certified(h) == Quorum("prepare", h) /\ Quorum("commit", h)

CountedWereSent ==
  \A n \in Node : \A h \in Hash :
    /\ prepares[n][h] \subseteq Voters("prepare", h)
    /\ commits[n][h] \subseteq Voters("commit", h)

CommitAfterPrepares ==
  \A n \in Node : \A h \in Hash : commits[n][h] # {} => Quorum("prepare", h)

CallbacksCertified == \A n \in Node : \A c \in callbacks[n] : Certified(c.block.hash)
PendingCertified == \A n \in Node : \A e \in pendingCommits[n] : Certified(e.hash)
ChainCertified ==
  \A n \in Node : \A i \in 2 .. Len(chain[n]) : Certified(chain[n][i].hash)

CertificateInv ==
  /\ TypeInv
  /\ CountedWereSent
  /\ CommitAfterPrepares
  /\ CallbacksCertified
  /\ PendingCertified
  /\ ChainCertified

LEMMA VotersFinite ==
  ASSUME TypeOK, NEW type \in {"prepare", "commit"}, NEW h
  PROVE  /\ Voters(type, h) \subseteq Node
         /\ IsFiniteSet(Voters(type, h))
         /\ Cardinality(Voters(type, h)) \in Nat
<1>1. Voters(type, h) \subseteq Node
  <2> SUFFICES ASSUME NEW v \in Voters(type, h) PROVE v \in Node
    OBVIOUS
  <2>1. PICK m \in msgs : m.type = type /\ m.from = v
    BY DEF Voters
  <2>2. m \in Message
    BY DEF TypeOK
  <2> QED
    BY <2>1, <2>2, MessageFields
<1> QED
  BY <1>1, NodeAssumption, FS_Subset, FS_CardinalityType

\* A set of counted voters that is large enough makes a quorum.
LEMMA QuorumFromCount ==
  ASSUME TypeOK, NEW type \in {"prepare", "commit"}, NEW h,
         NEW S \in SUBSET Voters(type, h), Cardinality(S) >= MinApprovals
  PROVE  Quorum(type, h)
<1>1. Cardinality(S) <= Cardinality(Voters(type, h)) /\ Cardinality(S) \in Nat
  BY VotersFinite, FS_Subset, FS_CardinalityType
<1> QED
  BY <1>1, VotersFinite, BoundAssumption DEF Quorum

\* Votes are never taken back.
LEMMA VotersMonotone ==
  ASSUME msgs \subseteq msgs', NEW type, NEW h
  PROVE  Voters(type, h) \subseteq Voters(type, h)'
  BY DEF Voters

LEMMA QuorumMonotone ==
  ASSUME TypeOK, TypeOK', msgs \subseteq msgs',
         NEW type \in {"prepare", "commit"}, NEW h, Quorum(type, h)
  PROVE  Quorum(type, h)'
<1>1. IsFiniteSet(Voters(type, h)') /\ Cardinality(Voters(type, h)') \in Nat
  <2>1. Voters(type, h)' \subseteq Node
    <3> SUFFICES ASSUME NEW v \in Voters(type, h)' PROVE v \in Node
      OBVIOUS
    <3>1. PICK m \in msgs' : m.type = type /\ m.from = v
      BY DEF Voters
    <3>2. m \in Message
      BY DEF TypeOK
    <3> QED
      BY <3>1, <3>2, MessageFields
  <2> QED
    BY <2>1, NodeAssumption, FS_Subset, FS_CardinalityType
<1>2. Cardinality(Voters(type, h)) <= Cardinality(Voters(type, h)')
  BY <1>1, VotersMonotone, FS_Subset
<1>3. Cardinality(Voters(type, h)) \in Nat
  BY VotersFinite
<1> QED
  BY <1>1, <1>2, <1>3, BoundAssumption DEF Quorum

\* What AddBlock does with a certified block of node n.
LEMMA AddCertified ==
  ASSUME TypeOK, ChainCertified, CallbacksCertified,
         NEW n \in Node, NEW b \in blockPool[n], NEW by, AddBlock(n, b, by),
         Certified(b.hash)
  PROVE  /\ \A k \in Node : \A i \in 2 .. Len(chain'[k]) : Certified(chain'[k][i].hash)
         /\ \A k \in Node : \A c \in callbacks'[k] : Certified(c.block.hash)
<1>1. \A k \in Node : \A c \in callbacks'[k] : Certified(c.block.hash)
  <2>1. \A c \in Continuations(n, b, by) : c.block = b
    BY DEF Continuations
  <2>2. \A k \in Node : callbacks'[k] \subseteq
          IF k = n THEN callbacks[n] \union Continuations(n, b, by) ELSE callbacks[k]
    BY DEF AddBlock, TypeOK
  <2> QED
    BY <2>1, <2>2 DEF CallbacksCertified
<1>2. \A k \in Node : \A i \in 2 .. Len(chain'[k]) : Certified(chain'[k][i].hash)
  <2>1. CASE UNCHANGED chain
    BY <2>1 DEF ChainCertified
  <2>2. CASE chain' = [chain EXCEPT ![n] = Append(@, b)]
    <3> SUFFICES ASSUME NEW k \in Node, NEW i \in 2 .. Len(chain'[k])
                 PROVE  Certified(chain'[k][i].hash)
      OBVIOUS
    <3>1. CASE k # n
      BY <2>2, <3>1 DEF ChainCertified, TypeOK
    <3>2. CASE k = n
      <4>1. chain'[n] = Append(chain[n], b) /\ chain[n] \in Seq(Block) /\ b \in Block
        BY <2>2 DEF TypeOK
      <4>2. CASE i <= Len(chain[n])
        <5>1. i \in 2 .. Len(chain[n]) /\ chain'[n][i] = chain[n][i]
          BY <3>2, <4>1, <4>2
        <5> QED
          BY <3>2, <5>1 DEF ChainCertified
      <4>3. CASE i > Len(chain[n])
        <5>1. chain'[n][i] = b
          BY <3>2, <4>1, <4>3
        <5> QED
          BY <3>2, <5>1
      <4> QED
        BY <3>2, <4>1, <4>2, <4>3
    <3> QED
      BY <3>1, <3>2
  <2> QED
    BY <2>1, <2>2 DEF AddBlock
<1> QED
  BY <1>1, <1>2

VotesInv == CountedWereSent /\ CommitAfterPrepares
BlocksInv == CallbacksCertified /\ PendingCertified /\ ChainCertified

\* Certificates last, so a step that counts no vote keeps the first part, and
\* one that only drops continuations and pending commits keeps the second.
LEMMA CertifiedStays ==
  ASSUME TypeOK, TypeOK', msgs \subseteq msgs', NEW h, Certified(h)
  PROVE  Certified(h)'
  BY QuorumMonotone DEF Certified

LEMMA VotesStay ==
  ASSUME TypeOK, TypeOK', msgs \subseteq msgs', VotesInv,
         \A n \in Node : \A h \in Hash :
           /\ prepares'[n][h] \subseteq prepares[n][h]
           /\ commits'[n][h] \subseteq commits[n][h]
  PROVE  VotesInv'
<1>1. CountedWereSent'
  BY VotersMonotone DEF VotesInv, CountedWereSent
<1>2. CommitAfterPrepares'
  BY QuorumMonotone DEF VotesInv, CommitAfterPrepares
<1> QED
  BY <1>1, <1>2 DEF VotesInv

LEMMA BlocksStay ==
  ASSUME TypeOK, TypeOK', msgs \subseteq msgs', BlocksInv, UNCHANGED chain,
         \A n \in Node : /\ callbacks'[n] \subseteq callbacks[n]
                        /\ pendingCommits'[n] \subseteq pendingCommits[n]
  PROVE  BlocksInv'
<1>1. CallbacksCertified' /\ PendingCertified'
  BY CertifiedStays DEF BlocksInv, CallbacksCertified, PendingCertified
<1>2. ChainCertified'
  BY CertifiedStays DEF BlocksInv, ChainCertified
<1> QED
  BY <1>1, <1>2 DEF BlocksInv

LEMMA MessagesStay == [Next]_vars => msgs \subseteq msgs'
  BY DEF Next, vars, Receive, Submit, Continue, StartDrain, DrainKey, EndTick,
         Propose, Expire, Restart, Broadcast

LEMMA ReceiveVotes ==
  ASSUME CertificateInv, TypeOK', NEW n \in Node, NEW m \in msgs, Receive(n, m)
  PROVE  VotesInv'
<1>1. /\ TypeOK /\ VotesInv /\ m \in Message
      /\ msgs \subseteq msgs' /\ OwnVotes(n, m) \subseteq msgs'
  BY DEF CertificateInv, TypeInv, TypeOK, VotesInv, Receive, Broadcast
<1>2. CASE OnTransaction(n, m)
  BY <1>1, <1>2, VotesStay DEF OnTransaction, voteVars
<1>3. CASE OnPrePrepare(n, m)
  <2> DEFINE h == m.block.hash
  <2>1. UNCHANGED commits
    BY <1>3 DEF OnPrePrepare
  <2>2. CASE prepares[n][h] # {}
    BY <1>1, <1>3, <2>1, <2>2, VotesStay DEF OnPrePrepare
  <2>3. CASE prepares[n][h] = {}
    <3>1. prepares' = [prepares EXCEPT ![n][h] = {n}]
      BY <1>3, <2>3 DEF OnPrePrepare
    <3>2. PrepareMsg(h, n) \in msgs'
      BY <1>1, <1>3, <2>3 DEF OnPrePrepare, OwnVotes
    <3>3. n \in Voters("prepare", h)'
      BY <3>2 DEF Voters, PrepareMsg
    <3>4. CountedWereSent'
      BY <1>1, <2>1, <3>1, <3>3, VotersMonotone
         DEF VotesInv, CountedWereSent, TypeOK
    <3>5. CommitAfterPrepares'
      BY <1>1, <2>1, QuorumMonotone DEF VotesInv, CommitAfterPrepares
    <3> QED
      BY <3>4, <3>5 DEF VotesInv
  <2> QED
    BY <2>2, <2>3
<1>4. CASE OnPrepare(n, m)
  <2> DEFINE h == m.blockHash
  <2>1. /\ h \in Hash /\ m.type = "prepare"
        /\ prepares' = [prepares EXCEPT ![n][h] = @ \union {m.from}]
    BY <1>1, <1>4, MessageFields DEF OnPrepare
  <2>2. m.from \in Voters("prepare", h)
    BY <2>1 DEF Voters
  <2>3. prepares[n][h] \union {m.from} \subseteq Voters("prepare", h)
    BY <1>1, <2>1, <2>2 DEF VotesInv, CountedWereSent
  <2>4. \A k \in Node : \A g \in Hash :
          prepares'[k][g] \subseteq Voters("prepare", g)'
    BY <1>1, <2>1, <2>3, VotersMonotone DEF VotesInv, CountedWereSent, TypeOK
  <2>5. CASE UNCHANGED commits
    <3>1. CountedWereSent'
      BY <1>1, <2>4, <2>5, VotersMonotone DEF VotesInv, CountedWereSent
    <3>2. CommitAfterPrepares'
      BY <1>1, <2>5, QuorumMonotone DEF VotesInv, CommitAfterPrepares
    <3> QED
      BY <3>1, <3>2 DEF VotesInv
  <2>6. CASE OwnVotes(n, m) # {} /\ commits' = [commits EXCEPT ![n][h] = {n}]
    <3>1. PrepareCompletes(n, m) /\ CommitMsg(h, n) \in msgs'
      BY <1>1, <2>1, <2>6 DEF OwnVotes
    <3>2. Quorum("prepare", h)
      BY <1>1, <2>3, <3>1, QuorumFromCount DEF PrepareCompletes, ThresholdReached
    <3>3. Quorum("prepare", h)'
      BY <1>1, <3>2, QuorumMonotone
    <3>4. n \in Voters("commit", h)'
      BY <3>1 DEF Voters, CommitMsg
    <3>5. CountedWereSent'
      BY <1>1, <2>4, <2>6, <3>4, VotersMonotone
         DEF VotesInv, CountedWereSent, TypeOK
    <3>6. CommitAfterPrepares'
      BY <1>1, <2>6, <3>3, QuorumMonotone DEF VotesInv, CommitAfterPrepares, TypeOK
    <3> QED
      BY <3>5, <3>6 DEF VotesInv
  <2> QED
    BY <1>4, <2>5, <2>6 DEF OnPrepare
<1>5. CASE OnCommit(n, m)
  <2> DEFINE h == m.blockHash
  <2>1. /\ h \in Hash /\ m.type = "commit" /\ UNCHANGED prepares
        /\ commits' = [commits EXCEPT ![n][h] = @ \union {m.from}]
        /\ commits[n][h] # {}
    BY <1>1, <1>5, MessageFields DEF OnCommit, AcceptsCommit
  <2>2. m.from \in Voters("commit", h)
    BY <2>1 DEF Voters
  <2>3. CountedWereSent'
    BY <1>1, <2>1, <2>2, VotersMonotone DEF VotesInv, CountedWereSent, TypeOK
  <2>4. Quorum("prepare", h)
    BY <1>1, <2>1 DEF VotesInv, CommitAfterPrepares
  <2>5. CommitAfterPrepares'
    BY <1>1, <2>1, <2>4, QuorumMonotone DEF VotesInv, CommitAfterPrepares, TypeOK
  <2> QED
    BY <2>3, <2>5 DEF VotesInv
<1> QED
  BY <1>2, <1>3, <1>4, <1>5 DEF Receive

LEMMA ReceiveBlocks ==
  ASSUME CertificateInv, TypeOK', NEW n \in Node, NEW m \in msgs, Receive(n, m)
  PROVE  BlocksInv'
<1>1. /\ TypeOK /\ BlocksInv /\ m \in Message /\ msgs \subseteq msgs'
  BY DEF CertificateInv, TypeInv, TypeOK, BlocksInv, Receive, Broadcast
<1>2. UNCHANGED pendingCommits
  BY DEF Receive, OnTransaction, OnPrePrepare, OnPrepare, OnCommit
<1>3. CASE UNCHANGED chainVars
  BY <1>1, <1>2, <1>3, BlocksStay DEF chainVars
<1>4. CASE OnCommit(n, m) /\ CommitCompletes(n, m)
           /\ \E b \in blockPool[n] : b.hash = m.blockHash /\ AddBlock(n, b, "commit")
  <2> DEFINE h == m.blockHash
  <2>1. h \in Hash /\ m.type = "commit" /\ commits[n][h] # {}
    BY <1>1, <1>4, MessageFields DEF OnCommit, AcceptsCommit
  <2>2. m.from \in Voters("commit", h)
    BY <2>1 DEF Voters
  <2>3. commits[n][h] \union {m.from} \subseteq Voters("commit", h)
    BY <2>1, <2>2 DEF CertificateInv, CountedWereSent
  <2>4. Quorum("commit", h)
    BY <1>1, <1>4, <2>3, QuorumFromCount DEF CommitCompletes, ThresholdReached
  <2>5. Certified(h)
    BY <2>1, <2>4 DEF CertificateInv, CommitAfterPrepares, Certified
  <2>6. /\ \A k \in Node : \A i \in 2 .. Len(chain'[k]) : Certified(chain'[k][i].hash)
        /\ \A k \in Node : \A c \in callbacks'[k] : Certified(c.block.hash)
    BY <1>1, <1>4, <2>5, AddCertified DEF BlocksInv
  <2>7. ChainCertified' /\ CallbacksCertified'
    BY <1>1, <2>6, CertifiedStays DEF ChainCertified, CallbacksCertified
  <2>8. PendingCertified'
    BY <1>1, <1>2, CertifiedStays DEF BlocksInv, PendingCertified
  <2> QED
    BY <2>7, <2>8 DEF BlocksInv
<1> QED
  BY <1>3, <1>4 DEF Receive, OnTransaction, OnPrePrepare, OnPrepare, OnCommit,
                    chainVars

LEMMA ContinueCertified ==
  ASSUME CertificateInv, TypeOK', NEW n \in Node, NEW c \in callbacks[n],
         Continue(n, c)
  PROVE  VotesInv' /\ BlocksInv'
<1>1. /\ TypeOK /\ VotesInv /\ BlocksInv /\ UNCHANGED <<msgs, chain>>
      /\ msgs \subseteq msgs'
  BY DEF CertificateInv, TypeInv, VotesInv, BlocksInv, Continue
<1>2. c \in Callback /\ c.block.hash \in Hash
  BY <1>1 DEF TypeOK, Callback, Block
<1>3. \A k \in Node : callbacks'[k] \subseteq callbacks[k]
  BY <1>1 DEF Continue, TypeOK
<1>4. CASE AfterAdd(n, c)
  <2>1. \A k \in Node : \A h \in Hash :
          /\ prepares'[k][h] \subseteq prepares[k][h]
          /\ commits'[k][h] \subseteq commits[k][h]
    BY <1>1, <1>2, <1>4 DEF AfterAdd, TypeOK
  <2>2. \A k \in Node : pendingCommits'[k] \subseteq pendingCommits[k]
    BY <1>1, <1>4 DEF AfterAdd, WithoutKey, TypeOK
  <2> QED
    BY <1>1, <1>3, <2>1, <2>2, VotesStay, BlocksStay
<1>5. CASE AfterRefusal(n, c)
  <2>1. VotesInv'
    BY <1>1, <1>5, VotesStay DEF AfterRefusal
  <2>2. Certified(c.block.hash)
    BY <1>1 DEF BlocksInv, CallbacksCertified
  <2>3. \A k \in Node : \A e \in pendingCommits'[k] :
          e \in pendingCommits[k] \/ e.hash = c.block.hash
    BY <1>1, <1>5 DEF AfterRefusal, WithoutKey, TypeOK
  <2>4. PendingCertified'
    BY <1>1, <2>2, <2>3, CertifiedStays DEF BlocksInv, PendingCertified
  <2>5. CallbacksCertified' /\ ChainCertified'
    BY <1>1, <1>3, CertifiedStays DEF BlocksInv, CallbacksCertified, ChainCertified
  <2> QED
    BY <2>1, <2>4, <2>5 DEF BlocksInv
<1> QED
  BY <1>4, <1>5 DEF Continue

LEMMA DrainCertified ==
  ASSUME CertificateInv, TypeOK', NEW n \in Node, DrainKey(n)
  PROVE  VotesInv' /\ BlocksInv'
<1>1. /\ TypeOK /\ VotesInv /\ BlocksInv /\ msgs \subseteq msgs'
      /\ UNCHANGED <<msgs, voteVars, pendingCommits>>
  BY DEF CertificateInv, TypeInv, VotesInv, BlocksInv, DrainKey
<1>2. VotesInv'
  BY <1>1, VotesStay DEF voteVars
<1>3. CASE UNCHANGED chainVars
  BY <1>1, <1>2, <1>3, BlocksStay DEF chainVars
<1>4. ASSUME NEW k, NEW b \in Retryable(n, k), AddBlock(n, b, "drain")
      PROVE  BlocksInv'
  <2>1. /\ b \in blockPool[n]
        /\ [sequenceId |-> k, hash |-> b.hash] \in pendingCommits[n]
    BY DEF Retryable
  <2>2. Certified(b.hash)
    BY <1>1, <2>1 DEF BlocksInv, PendingCertified
  <2>3. /\ \A j \in Node : \A i \in 2 .. Len(chain'[j]) : Certified(chain'[j][i].hash)
        /\ \A j \in Node : \A c \in callbacks'[j] : Certified(c.block.hash)
    BY <1>1, <1>4, <2>1, <2>2, AddCertified DEF BlocksInv
  <2>4. ChainCertified' /\ CallbacksCertified'
    BY <1>1, <2>3, CertifiedStays DEF ChainCertified, CallbacksCertified
  <2>5. PendingCertified'
    BY <1>1, CertifiedStays DEF BlocksInv, PendingCertified
  <2> QED
    BY <2>4, <2>5 DEF BlocksInv
<1> QED
  BY <1>2, <1>3, <1>4 DEF DrainKey

\* A restart forgets the chain and the pools, the votes stay sent.
LEMMA RestartCertified ==
  ASSUME CertificateInv, TypeOK', NEW n \in Node, Restart(n)
  PROVE  VotesInv' /\ BlocksInv'
<1>1. /\ TypeOK /\ VotesInv /\ BlocksInv /\ msgs \subseteq msgs'
      /\ chain' = [chain EXCEPT ![n] = <<Genesis>>]
  BY DEF CertificateInv, TypeInv, VotesInv, BlocksInv, Restart
<1>2. \A k \in Node : \A h \in Hash :
        /\ prepares'[k][h] \subseteq prepares[k][h]
        /\ commits'[k][h] \subseteq commits[k][h]
  BY <1>1 DEF Restart, TypeOK
<1>3. VotesInv'
  BY <1>1, <1>2, VotesStay
<1>4. \A k \in Node : /\ callbacks'[k] \subseteq callbacks[k]
                     /\ pendingCommits'[k] \subseteq pendingCommits[k]
  BY <1>1 DEF Restart, TypeOK
<1>5. CallbacksCertified' /\ PendingCertified'
  BY <1>1, <1>4, CertifiedStays DEF BlocksInv, CallbacksCertified, PendingCertified
<1>6. ChainCertified'
  <2>1. Len(<<Genesis>>) = 1
    OBVIOUS
  <2>2. \A k \in Node : chain'[k] = IF k = n THEN <<Genesis>> ELSE chain[k]
    BY <1>1 DEF TypeOK
  <2>3. \A k \in Node : \A i \in 2 .. Len(chain'[k]) :
          Certified(chain'[k][i].hash)
    BY <1>1, <2>1, <2>2 DEF BlocksInv, ChainCertified
  <2> QED
    BY <1>1, <2>3, CertifiedStays DEF ChainCertified
<1> QED
  BY <1>3, <1>5, <1>6 DEF BlocksInv

LEMMA CertificateInit == Init => CertificateInv
<1> SUFFICES ASSUME Init PROVE CertificateInv
  OBVIOUS
<1>1. TypeInv
  BY TypeInit
<1>2. CountedWereSent /\ CommitAfterPrepares
  BY DEF Init, CountedWereSent, CommitAfterPrepares
<1>3. CallbacksCertified /\ PendingCertified
  BY DEF Init, CallbacksCertified, PendingCertified
<1>4. ChainCertified
  <2>1. \A n \in Node : Len(chain[n]) = 1
    BY DEF Init
  <2> QED
    BY <2>1 DEF ChainCertified
<1> QED
  BY <1>1, <1>2, <1>3, <1>4 DEF CertificateInv

LEMMA CertificateNext == CertificateInv /\ [Next]_vars => CertificateInv'
<1> SUFFICES ASSUME CertificateInv, [Next]_vars PROVE CertificateInv'
  OBVIOUS
<1>1. /\ TypeInv' /\ TypeOK' /\ TypeOK /\ msgs \subseteq msgs'
      /\ VotesInv /\ BlocksInv
  BY TypeNext, MessagesStay DEF CertificateInv, TypeInv, VotesInv, BlocksInv
<1>2. /\ UNCHANGED <<prepares, commits, chain>>
      /\ \A n \in Node : /\ callbacks'[n] \subseteq callbacks[n]
                         /\ pendingCommits'[n] \subseteq pendingCommits[n]
      => VotesInv' /\ BlocksInv'
  BY <1>1, VotesStay, BlocksStay
<1>3. ASSUME UNCHANGED vars
      PROVE  VotesInv' /\ BlocksInv'
  BY <1>2, <1>3 DEF vars, voteVars, chainVars
<1>4. ASSUME NEW n \in Node, NEW m \in msgs, Receive(n, m)
      PROVE  VotesInv' /\ BlocksInv'
  BY <1>1, <1>4, ReceiveVotes, ReceiveBlocks
<1>5. ASSUME NEW n \in Node, NEW t \in Tx, Submit(n, t)
      PROVE  VotesInv' /\ BlocksInv'
  BY <1>2, <1>5 DEF Submit, voteVars, chainVars
<1>6. ASSUME NEW n \in Node, NEW c \in callbacks[n], Continue(n, c)
      PROVE  VotesInv' /\ BlocksInv'
  BY <1>1, <1>6, ContinueCertified
<1>7. ASSUME NEW n \in Node, StartDrain(n) \/ EndTick(n)
      PROVE  VotesInv' /\ BlocksInv'
  BY <1>2, <1>7 DEF StartDrain, EndTick, voteVars, chainVars
<1>8. ASSUME NEW n \in Node, DrainKey(n)
      PROVE  VotesInv' /\ BlocksInv'
  BY <1>1, <1>8, DrainCertified
<1>9. ASSUME NEW n \in Node, NEW data, Propose(n, data)
      PROVE  VotesInv' /\ BlocksInv'
  BY <1>2, <1>9 DEF Propose, voteVars, chainVars
<1>10. ASSUME NEW n \in Node, Expire(n)
       PROVE  VotesInv' /\ BlocksInv'
  <2>1. UNCHANGED <<prepares, commits, chain, callbacks>>
    BY <1>10 DEF Expire, chainVars
  <2>2. \/ UNCHANGED pendingCommits
        \/ \E e \in pendingCommits[n] :
             pendingCommits' = [pendingCommits EXCEPT ![n] = @ \ {e}]
    BY <1>10 DEF Expire
  <2>3. pendingCommits \in [Node -> SUBSET Entry]
    BY <1>1 DEF TypeOK
  <2>4. \A k \in Node : pendingCommits'[k] \subseteq pendingCommits[k]
    BY <2>2, <2>3
  <2> QED
    BY <1>2, <2>1, <2>4
<1>11. ASSUME NEW n \in Node, Restart(n)
       PROVE  VotesInv' /\ BlocksInv'
  BY <1>1, <1>11, RestartCertified
<1>12. VotesInv' /\ BlocksInv'
  BY <1>3, <1>4, <1>5, <1>6, <1>7, <1>8, <1>9, <1>10, <1>11, NodeAssumption
     DEF Next
<1> QED
  BY <1>1, <1>12 DEF CertificateInv, VotesInv, BlocksInv

\* Every block in a chain has MIN_APPROVALS different voters behind it in both
\* phases, whichever messages are lost, caches expire and nodes are restarted.
THEOREM CertificateHolds == Spec => []CommitCertificate
<1>1. CertificateInv => CommitCertificate
  <2> SUFFICES ASSUME CertificateInv, NEW n \in Node,
                      NEW i \in DOMAIN chain[n] \ {1}
               PROVE  Certified(chain[n][i].hash)
    BY DEF CommitCertificate, Certified, Quorum
  <2>1. i \in 2 .. Len(chain[n])
    BY DEF CertificateInv, TypeInv, TypeOK
  <2> QED
    BY <2>1 DEF CertificateInv, ChainCertified
<1> QED
  BY <1>1, CertificateInit, CertificateNext, PTL DEF Spec
=============================================================================
