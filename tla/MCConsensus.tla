---------------------------- MODULE MCConsensus ----------------------------
(***************************************************************************)
(* NotaryConsensus for TLC, and its replicas after an uneventful start.    *)
(***************************************************************************)
EXTENDS NotaryConsensus

CONSTANTS
  NODE0, NODE1, NODE2, NODE3,  \* the owners of the validator keys
  StartHeight                      \* how many blocks AgedInit starts from

OldBlock(s) ==
  [hash |-> s, lastHash |-> IF s = 0 THEN 0 ELSE s - 1, sequenceId |-> s,
   data |-> {}, proposer |-> Proposer]

\* Every node has the first blocks, their messages have all arrived, and what
\* the caches held of them has expired.
AgedInit ==
  /\ msgs = {}
  /\ minted = StartHeight
  /\ chain = [n \in Node |-> [i \in 1 .. StartHeight + 1 |-> OldBlock(i - 1)]]
  /\ txPool = [n \in Node |-> {}]
  /\ blockPool = [n \in Node |-> {}]
  /\ prepares = [n \in Node |-> [h \in Hash |-> {}]]
  /\ prepared = [n \in Node |-> {}]
  /\ commits = [n \in Node |-> [h \in Hash |-> {}]]
  /\ committed = [n \in Node |-> {}]
  /\ pendingCommits = [n \in Node |-> {}]
  /\ callbacks = [n \in Node |-> {}]
  /\ proposedSequenceId = [n \in Node |-> StartHeight + 1]
  /\ busy = [n \in Node |-> FALSE]
  /\ keys = [n \in Node |-> {}]

AgedSpec == AgedInit /\ [][Next]_vars
=============================================================================
