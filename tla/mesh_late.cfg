\* Three notaries, two blocks, backups that find each other late.
SPECIFICATION FairMeshSpec
CONSTANTS
  NODE3 = NODE3
  NODE0 = NODE0
  NODE1 = NODE1
  NODE2 = NODE2
  Node = {NODE3, NODE0, NODE1}
  Validator = {NODE3, NODE0, NODE1}
  Proposer = NODE3
  MinApprovals = 2
  Tx = {}
  BadTx = {}
  TxLimit = 1
  MaxBlocks = 2
  Expirable = {}
  Restartable = {}
  Link <- FullMesh
  Up <- ProposerLinks
  Prompt <- SlowToB
  Crashable = {}
INVARIANTS MeshTypeOK NoCommitLost
PROPERTIES Spec EveryBlockAdopted
\* The bounds let the system stop.
CHECK_DEADLOCK FALSE
