-------------------------- MODULE ReplicatedLedger --------------------------
(***************************************************************************)
(* What the notary network promises whoever reads a chain: there is one    *)
(* ledger, which only ever grows, by one linked block at a time; every     *)
(* node's chain is a prefix of it, and grows by the ledger's next block.   *)
(* The proposer extends the ledger only when its own chain has caught up.  *)
(* A node that is started again has only the genesis block.                *)
(***************************************************************************)
EXTENDS Naturals, Sequences

CONSTANTS
  Node,
  Block,
  Genesis,
  Proposer,    \* the node that extends the ledger
  Restartable  \* the nodes that may lose their chain

VARIABLES
  ledger,  \* the blocks proposed so far
  chain    \* chain[n]: the blocks node n has added

ledgerVars == <<ledger, chain>>

Init ==
  /\ ledger = <<Genesis>>
  /\ chain = [n \in Node |-> <<Genesis>>]

Extend ==
  /\ chain[Proposer] = ledger
  /\ \E b \in Block :
       /\ b.lastHash = ledger[Len(ledger)].hash
       /\ b.sequenceId = ledger[Len(ledger)].sequenceId + 1
       /\ ledger' = Append(ledger, b)
  /\ UNCHANGED chain

Adopt(n) ==
  /\ Len(chain[n]) < Len(ledger)
  /\ chain' = [chain EXCEPT ![n] = Append(@, ledger[Len(@) + 1])]
  /\ UNCHANGED ledger

Reset(n) ==
  /\ chain' = [chain EXCEPT ![n] = <<Genesis>>]
  /\ UNCHANGED ledger

Next ==
  \/ Extend
  \/ \E n \in Node : Adopt(n)
  \/ \E n \in Restartable : Reset(n)

Spec == Init /\ [][Next]_ledgerVars
-----------------------------------------------------------------------------
\* Every chain is a prefix of the ledger.
Prefixes ==
  \A n \in Node :
    /\ Len(chain[n]) <= Len(ledger)
    /\ chain[n] = SubSeq(ledger, 1, Len(chain[n]))
=============================================================================
