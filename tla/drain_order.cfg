\* Two notaries that have seven blocks; three more, up to the tenth.
SPECIFICATION AgedSpec
CONSTANTS
  StartHeight = 7
  NODE3 = NODE3
  NODE0 = NODE0
  NODE1 = NODE1
  NODE2 = NODE2
  Node = {NODE3, NODE0}
  Validator = {NODE3, NODE0}
  Proposer = NODE3
  MinApprovals = 2
  Tx = {}
  BadTx = {}
  TxLimit = 1
  MaxBlocks = 10
  Expirable = {}
  Restartable = {}
PROPERTY LowestFirst
\* The bounds let the system stop.
CHECK_DEADLOCK FALSE
