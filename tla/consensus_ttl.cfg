\* Two notaries, two blocks, a transaction, a backup that restarts and whose caches expire.
SPECIFICATION Spec
CONSTANTS
  StartHeight = 0
  NODE3 = NODE3
  NODE0 = NODE0
  NODE1 = NODE1
  NODE2 = NODE2
  Node = {NODE3, NODE0}
  Validator = {NODE3, NODE0}
  Proposer = NODE3
  MinApprovals = 2
  Tx = {"t"}
  BadTx = {}
  TxLimit = 1
  MaxBlocks = 2
  Expirable = {NODE0}
  Restartable = {NODE0}
INVARIANT Agreement
PROPERTY TxKeptUntilIncluded
\* The bounds let the system stop.
CHECK_DEADLOCK FALSE
