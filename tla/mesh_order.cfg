\* Three notaries, two blocks, all sockets open from the start.
SPECIFICATION MeshSpec
CONSTANTS
  NODE3 = NODE3
  NODE0 = NODE0
  NODE1 = NODE1
  NODE2 = NODE2
  Node = {NODE3, NODE0, NODE1}
  Validator = {NODE3, NODE0, NODE1}
  Proposer = NODE3
  MinApprovals = 2
  Tx = {}
  BadTx = {}
  TxLimit = 1
  MaxBlocks = 2
  Expirable = {}
  Restartable = {}
  Link <- FullMesh
  Up <- FullMesh
  Prompt <- SlowAtB
  Crashable = {}
INVARIANTS NoEarlyVote CommitsInOrder NothingStalls
\* The bounds let the system stop.
CHECK_DEADLOCK FALSE
