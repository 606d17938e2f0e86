\* Three notaries, a transaction, a backup that dies.
SPECIFICATION FairMeshSpec
CONSTANTS
  NODE3 = NODE3
  NODE0 = NODE0
  NODE1 = NODE1
  NODE2 = NODE2
  Node = {NODE3, NODE0, NODE1}
  Validator = {NODE3, NODE0, NODE1}
  Proposer = NODE3
  MinApprovals = 2
  Tx = {"t"}
  BadTx = {}
  TxLimit = 1
  MaxBlocks = 1
  Expirable = {}
  Restartable = {}
  Link <- FullMesh
  Up <- FullMesh
  Prompt <- SlowToB
  Crashable = {NODE0}
INVARIANT NothingStalls
PROPERTY PooledTxIncluded
\* The bounds let the system stop.
CHECK_DEADLOCK FALSE
