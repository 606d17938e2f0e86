------------------------- MODULE NotaryMesh_proofs -------------------------
(***************************************************************************)
(* The mesh implements NotaryConsensus: whatever is under way on a socket  *)
(* was broadcast, so each delivery is a Receive of NotaryConsensus, and a  *)
(* message that is dropped, a socket that opens and a process that dies    *)
(* change nothing there.  What is proved of NotaryConsensus for any        *)
(* network thereby holds of the nodes joined by sockets.                   *)
(***************************************************************************)
EXTENDS NotaryMesh, NotaryVotes_proofs

NetInv ==
  /\ open \subseteq Link /\ Up \subseteq open
  /\ alive \subseteq Node
  /\ chan \in [Link -> Seq(msgs)]

LEMMA NetInitial == MeshInit => NetInv
<1> SUFFICES ASSUME MeshInit PROVE NetInv
  OBVIOUS
<1>1. <<>> \in Seq(msgs)
  OBVIOUS
<1> QED
  BY <1>1, MeshAssumption DEF MeshInit, NetInv

LEMMA LinkEnds ==
  ASSUME NEW l \in Link
  PROVE  l[1] \in Node /\ l[2] \in Node
  BY MeshAssumption

\* A queue of broadcast messages is still one when more has been broadcast.
LEMMA SeqGrows ==
  ASSUME NEW S, NEW T, S \subseteq T, NEW q \in Seq(S)
  PROVE  q \in Seq(T)
<1>1. Len(q) \in Nat /\ \A i \in 1 .. Len(q) : q[i] \in T
  OBVIOUS
<1> QED
  BY <1>1

LEMMA SentType ==
  ASSUME NEW S, NEW n, NEW l, NEW queue \in Seq(S), NEW out \in Seq(S)
  PROVE  Sent(n, queue, l, out) \in Seq(S)
  BY DEF Sent

\* What a node broadcasts by itself.
LEMMA SendType ==
  ASSUME NetInv, NEW n, NEW m, Broadcast({m}), Send(n, <<m>>)
  PROVE  chan' \in [Link -> Seq(msgs')]
<1>1. msgs \subseteq msgs' /\ <<m>> \in Seq(msgs')
  BY DEF Broadcast
<1>2. \A l \in Link : chan[l] \in Seq(msgs')
  BY <1>1, SeqGrows DEF NetInv
<1>3. \A l \in Link : Sent(n, chan[l], l, <<m>>) \in Seq(msgs')
  BY <1>1, <1>2, SentType
<1> QED
  BY <1>3 DEF Send

\* What it broadcasts on account of an accepted message.
LEMMA AcceptType ==
  ASSUME NetInv, NEW l \in Link, chan[l] # <<>>, Accept(l)
  PROVE  /\ Head(chan[l]) \in msgs
         /\ chan' \in [Link -> Seq(msgs')]
<1> DEFINE n == l[2]
           m == Head(chan[l])
<1>1. chan[l] \in Seq(msgs)
  BY DEF NetInv
<1>2. m \in msgs /\ Tail(chan[l]) \in Seq(msgs)
  BY <1>1
<1>3. msgs' = msgs \union ({m} \union OwnVotes(n, m))
  BY DEF Accept, Receive, Broadcast
<1>4. Outbox(n, m) \in Seq(msgs')
  <2>1. CASE OwnVotes(n, m) = {}
    BY <1>3, <2>1 DEF Outbox
  <2>2. CASE OwnVotes(n, m) # {}
    <3>1. (CHOOSE v \in OwnVotes(n, m) : TRUE) \in msgs'
      BY <1>3, <2>2
    <3>2. m \in msgs'
      BY <1>3
    <3> QED
      BY <2>2, <3>1, <3>2 DEF Outbox
  <2> QED
    BY <2>1, <2>2
<1>5. \A k \in Link :
        (IF k = l THEN Tail(chan[l]) ELSE chan[k]) \in Seq(msgs')
  <2>1. msgs \subseteq msgs'
    BY <1>3
  <2>2. \A k \in Link : chan[k] \in Seq(msgs')
    BY <2>1, SeqGrows DEF NetInv
  <2>3. Tail(chan[l]) \in Seq(msgs')
    BY <1>2, <2>1, SeqGrows
  <2> QED
    BY <2>2, <2>3
<1>6. \A k \in Link :
        Sent(n, IF k = l THEN Tail(chan[l]) ELSE chan[k], k, Outbox(n, m))
          \in Seq(msgs')
  <2> TAKE k \in Link
  <2> QED
    BY <1>4, <1>5, SentType
<1> QED
  BY <1>2, <1>6 DEF Accept

LEMMA NetStep == NetInv /\ [MeshNext]_meshVars => NetInv' /\ [Next]_vars
<1> SUFFICES ASSUME NetInv, [MeshNext]_meshVars
             PROVE  NetInv' /\ [Next]_vars
  OBVIOUS
<1>1. CASE UNCHANGED meshVars
  BY <1>1 DEF meshVars, netVars, vars, NetInv
<1>2. ASSUME NEW l \in Link, Deliver(l)
      PROVE  NetInv' /\ [Next]_vars
  <2>1. chan[l] # <<>> /\ UNCHANGED <<open, alive>>
    BY <1>2 DEF Deliver
  <2>2. CASE Accept(l)
    <3>1. Receive(l[2], Head(chan[l]))
      BY <2>2 DEF Accept
    <3> QED
      BY <2>1, <2>2, <3>1, AcceptType, LinkEnds DEF NetInv, Next
  <2>3. CASE Ignore(l)
    <3>1. Tail(chan[l]) \in Seq(msgs)
      BY <2>1 DEF NetInv
    <3> QED
      BY <2>1, <2>3, <3>1 DEF Ignore, NetInv, vars
  <2> QED
    BY <1>2, <2>2, <2>3 DEF Deliver
<1>3. ASSUME NEW l \in Link, Connect(l) \/ Lose(l)
      PROVE  NetInv' /\ [Next]_vars
  <2>1. <<>> \in Seq(msgs)
    OBVIOUS
  <2>2. UNCHANGED vars /\ UNCHANGED msgs
    BY <1>3 DEF Connect, Lose, vars
  <2> QED
    BY <1>3, <2>1, <2>2 DEF Connect, Lose, NetInv
<1>4. ASSUME NEW n \in Node, NEW t \in Tx, MeshSubmit(n, t)
      PROVE  NetInv' /\ [Next]_vars
  BY <1>4, SendType DEF MeshSubmit, Submit, NetInv, Next
<1>5. ASSUME NEW n \in Node, MeshContinue(n) \/ MeshDrain(n)
      PROVE  NetInv' /\ [Next]_vars
  <2>1. UNCHANGED netVars /\ UNCHANGED msgs
    BY <1>5 DEF MeshContinue, MeshDrain, Continue, StartDrain, DrainKey, EndTick
  <2>2. Next
    BY <1>5 DEF MeshContinue, MeshDrain, Next
  <2> QED
    BY <2>1, <2>2 DEF NetInv, netVars
<1>6. ASSUME NEW n \in Node, MeshPropose(n)
      PROVE  NetInv' /\ [Next]_vars
  BY <1>6, SendType DEF MeshPropose, Propose, NetInv, Next
<1>7. ASSUME NEW n \in Crashable, Crash(n)
      PROVE  NetInv' /\ [Next]_vars
  <2>1. \A l \in Link : (IF l[2] = n THEN <<>> ELSE chan[l]) \in Seq(msgs)
    BY DEF NetInv
  <2> QED
    BY <1>7, <2>1 DEF Crash, NetInv, vars
<1> QED
  BY <1>1, <1>2, <1>3, <1>4, <1>5, <1>6, <1>7 DEF MeshNext

LEMMA NetInvariant == MeshSpec => []NetInv
<1>1. NetInv /\ [MeshNext]_meshVars => NetInv'
  BY NetStep
<1> QED
  BY <1>1, NetInitial, PTL DEF MeshSpec
-----------------------------------------------------------------------------
\* Nodes joined by FIFO sockets do nothing that NotaryConsensus does not allow.
THEOREM MeshImplementsConsensus == MeshSpec => Spec
<1>1. MeshInit => Init
  BY DEF MeshInit
<1>2. NetInv /\ [MeshNext]_meshVars => [Next]_vars
  BY NetStep
<1> QED
  BY <1>1, <1>2, NetInvariant, PTL DEF MeshSpec, Spec

\* The nodes and the sockets between them have their shape.
THEOREM MeshTypeCorrect == MeshSpec => []MeshTypeOK
<1>1. NetInv /\ TypeOK => MeshTypeOK
  <2> SUFFICES ASSUME NetInv, TypeOK PROVE MeshTypeOK
    OBVIOUS
  <2>1. \A l \in Link : chan[l] \in Seq(Message)
    BY SeqGrows DEF NetInv, TypeOK
  <2> QED
    BY <2>1 DEF NetInv, MeshTypeOK
<1> QED
  BY <1>1, NetInvariant, MeshImplementsConsensus, TypeCorrect, PTL

\* Agreement and the certificates hold over sockets too, with sockets that
\* open late, lost tails of queues, and processes that die.
THEOREM MeshSafe ==
  ASSUME Proposer \notin Restartable
  PROVE  MeshSpec => [](Agreement /\ CommitCertificate)
BY MeshImplementsConsensus, AgreementHolds, CertificateHolds, PTL
=============================================================================
