\* Three of four notaries, two blocks, a backup that restarts.
SPECIFICATION Spec
CONSTANTS
  StartHeight = 0
  NODE3 = NODE3
  NODE0 = NODE0
  NODE1 = NODE1
  NODE2 = NODE2
  Node = {NODE3, NODE0, NODE1}
  Validator = {NODE3, NODE0, NODE1, NODE2}
  Proposer = NODE3
  MinApprovals = 3
  Tx = {}
  BadTx = {}
  TxLimit = 1
  MaxBlocks = 2
  Expirable = {}
  Restartable = {NODE0}
INVARIANTS TypeOK CommitCertificate NoZombieVotes NoCommitLost
PROPERTY LedgerSpec
\* The bounds let the system stop.
CHECK_DEADLOCK FALSE
