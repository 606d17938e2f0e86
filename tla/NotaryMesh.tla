----------------------------- MODULE NotaryMesh -----------------------------
(***************************************************************************)
(* The replicas of NotaryConsensus joined by the WebSockets of P2pServer.  *)
(* A socket is a FIFO channel.  A node that accepts a message first        *)
(* relays it on all its sockets and then sends the vote of its own that    *)
(* the message called for; a message it does not accept is dropped for     *)
(* good, since nothing is ever sent again.                                 *)
(*                                                                         *)
(* msgs keeps its meaning, all that was ever broadcast.                    *)
(***************************************************************************)
EXTENDS NotaryConsensus

CONSTANTS
  Link,      \* the sockets, as pairs <<sender, receiver>>
  Up,        \* those already open when the proposer first ticks
  Prompt,    \* bound: the sockets that deliver before anything else happens
  Crashable  \* bound: the nodes that may die for good

\* No process lists itself among its PEERS (p2p_server.js:11).
ASSUME MeshAssumption ==
  /\ Link \subseteq Node \X Node
  /\ \A l \in Link : l[1] # l[2]
  /\ Up \subseteq Link
  /\ Prompt \subseteq Link
  /\ Crashable \subseteq Node

VARIABLES
  open,  \* the sockets in the sender's this.sockets
  chan,  \* chan[l]: the messages under way on l
  alive  \* the nodes whose process runs

netVars  == <<open, chan, alive>>
meshVars == <<vars, netVars>>

MeshTypeOK ==
  /\ TypeOK
  /\ Up \subseteq open /\ open \subseteq Link
  /\ chan \in [Link -> Seq(Message)]
  /\ alive \subseteq Node

MeshInit ==
  /\ Init
  /\ open = Up
  /\ chan = [l \in Link |-> <<>>]
  /\ alive = Node

\* queue, with what n broadcasts added on its open sockets.
Sent(n, queue, l, out) ==
  IF l[1] = n /\ l \in open /\ l[2] \in alive THEN queue \o out ELSE queue

Send(n, out) == chan' = [l \in Link |-> Sent(n, chan[l], l, out)]

\* Mutant: the vote goes out before the relay it rests on.
VoteFirst(n, m) ==
  IF OwnVotes(n, m) = {} THEN <<m>>
  ELSE <<CHOOSE v \in OwnVotes(n, m) : TRUE, m>>

\* Mutant: an accepted message is not relayed.
VoteOnly(n, m) ==
  IF OwnVotes(n, m) = {} THEN <<>>
  ELSE <<CHOOSE v \in OwnVotes(n, m) : TRUE>>

\* Mutant: the commit does not wait for the prepares.
CommitAtOnce(n, m) ==
  IF m.type = "pre_prepare"
  THEN <<m, PrepareMsg(m.block.hash, n), CommitMsg(m.block.hash, n)>>
  ELSE <<m>>

\* The relay goes out before the vote.
Outbox(n, m) ==
  IF OwnVotes(n, m) = {} THEN <<m>>
  ELSE <<m, CHOOSE v \in OwnVotes(n, m) : TRUE>>

(***************************************************************************)
(* n handles the first message of socket l.                                *)
(***************************************************************************)
Accept(l) ==
  LET n == l[2]
      m == Head(chan[l])
  IN  /\ Receive(n, m)
      /\ chan' = [k \in Link |->
           Sent(n, IF k = l THEN Tail(chan[l]) ELSE chan[k], k, Outbox(n, m))]

Ignore(l) ==
  /\ ~ busy[l[2]]
  /\ ~ Accepts(l[2], Head(chan[l]))
  /\ chan' = [chan EXCEPT ![l] = Tail(@)]
  /\ UNCHANGED vars

\* All that was sent on the prompt sockets has been handled.
Settled ==
  \A l \in Prompt : chan[l] = <<>> \/ l[2] \notin alive \/ busy[l[2]]

Deliver(l) ==
  /\ Settled \/ l \in Prompt
  /\ l[2] \in alive
  /\ chan[l] # <<>>
  /\ Accept(l) \/ Ignore(l)
  /\ UNCHANGED <<open, alive>>

(***************************************************************************)
(* What a node does of its own accord.                                     *)
(***************************************************************************)
MeshSubmit(n, t) ==
  /\ Settled
  /\ n \in alive
  /\ Submit(n, t)
  /\ Send(n, <<TxMsg(t, n)>>)
  /\ UNCHANGED <<open, alive>>

MeshContinue(n) ==
  /\ Settled
  /\ n \in alive
  /\ \E c \in callbacks[n] : Continue(n, c)
  /\ UNCHANGED netVars

MeshDrain(n) ==
  /\ n \in alive
  /\ StartDrain(n) \/ DrainKey(n) \/ EndTick(n)
  /\ UNCHANGED netVars

MeshPropose(n) ==
  /\ Settled
  /\ n \in alive
  /\ \E data \in PendingTransactions(n) :
       /\ Propose(n, data)
       /\ Send(n, <<PrePrepareMsg(NewBlock(n, data))>>)
  /\ UNCHANGED <<open, alive>>

(***************************************************************************)
(* Sockets and processes.                                                  *)
(***************************************************************************)
Connect(l) ==
  /\ l \notin open
  /\ open' = open \union {l}
  /\ UNCHANGED <<vars, chan, alive>>

\* A dead process takes what was under way to it along; what it sent still
\* arrives, or is lost from some message on.
Crash(n) ==
  /\ n \in alive
  /\ alive' = alive \ {n}
  /\ chan' = [l \in Link |-> IF l[2] = n THEN <<>> ELSE chan[l]]
  /\ UNCHANGED <<vars, open>>

Lose(l) ==
  /\ l[1] \notin alive
  /\ chan[l] # <<>>
  /\ chan' = [chan EXCEPT ![l] = <<>>]
  /\ UNCHANGED <<vars, open, alive>>

MeshNext ==
  \/ \E l \in Link : Deliver(l) \/ Connect(l) \/ Lose(l)
  \/ \E n \in Node, t \in Tx : MeshSubmit(n, t)
  \/ \E n \in Node : MeshContinue(n) \/ MeshDrain(n) \/ MeshPropose(n)
  \/ \E n \in Crashable : Crash(n)

MeshSpec == MeshInit /\ [][MeshNext]_meshVars

\* A running process keeps handling what reaches it, whoever sent it, its
\* database answers, and its timer fires; sockets being opened open.
Fairness ==
  /\ WF_meshVars(\E l \in Link : Connect(l))
  /\ \A n \in Node :
       /\ WF_meshVars(\E l \in Link : l[2] = n /\ Deliver(l))
       /\ WF_meshVars(MeshContinue(n))
       /\ WF_meshVars(MeshDrain(n) \/ MeshPropose(n))

FairMeshSpec == MeshSpec /\ Fairness
-----------------------------------------------------------------------------
\* A vote is never handled before its receiver is ready for it: a node that
\* drops a vote has either counted that voter or has its quorum already.  The
\* pools drop early votes for good, so this is what makes dropping harmless.
NoEarlyVote ==
  \A l \in Link : chan[l] # <<>> =>
    LET m == Head(chan[l])
        n == l[2]
    IN  /\ m.type = "prepare" =>
             prepares[n][m.blockHash] # {} \/ m.blockHash \in prepared[n]
        /\ m.type = "commit" =>
             commits[n][m.blockHash] # {} \/ m.blockHash \in committed[n]

\* Commits complete in the order of the sequence ids, whichever peers a node
\* hears from first: no block is ever refused and put off.
CommitsInOrder ==
  \A n \in Node :
    pendingCommits[n] = {} /\ \A c \in callbacks[n] : c.isAdded

\* The voting does not stall with nothing under way: when the nodes that run,
\* the proposer and enough others, have handled all they sent each other, each
\* holds every block proposed, whoever else died and whatever was lost with it.
\* No vote is ever asked for again, so one that was missed would be for good.
NothingStalls ==
  /\ Proposer \in alive /\ alive # {Proposer} /\ ThresholdReached(alive)
  /\ \A l \in Link : l[1] \in alive /\ l[2] \in alive => chan[l] = <<>>
  => \A n \in alive : Len(chain[n]) = minted + 1

InChain(n, t) == \E i \in DOMAIN chain[n] : t \in chain[n][i].data

\* A transaction in the proposer's pool, while there are blocks left to
\* propose, ends up in the chain of every node that keeps running.
PooledTxIncluded ==
  \A t \in Tx :
    t \in txPool[Proposer] /\ minted < MaxBlocks ~>
      \A n \in alive : InChain(n, t)

Adopted(n, h) == \E i \in DOMAIN chain[n] : chain[n][i].hash = h

\* If every socket is open before the first proposal, every proposed block
\* reaches the chain of every node that keeps running.
EveryBlockAdopted ==
  \A h \in Hash \ {0} :
    minted = 0 /\ open = Link /\ <>(minted >= h) ~>
      \A n \in alive : Adopted(n, h)

\* Every node comes to hold a block above the genesis block.
BlocksGetCreated == <>(\A n \in alive : Len(chain[n]) > 1)
=============================================================================
