\* Two notaries and a request of unknown priority.
SPECIFICATION Spec
CONSTANTS
  StartHeight = 0
  NODE3 = NODE3
  NODE0 = NODE0
  NODE1 = NODE1
  NODE2 = NODE2
  Node = {NODE3, NODE0}
  Validator = {NODE3, NODE0}
  Proposer = NODE3
  MinApprovals = 2
  Tx = {"t"}
  BadTx = {"t"}
  TxLimit = 1
  MaxBlocks = 1
  Expirable = {}
  Restartable = {}
INVARIANT AddedBlocksComplete
\* The bounds let the system stop.
CHECK_DEADLOCK FALSE
