\* Normal mode, the threshold follows the request rate.
SPECIFICATION RequestsSpec
CONSTANTS
  Request = {"r", "s", "t"}
  Benchmarking = FALSE
  Dynamic = TRUE
  RequestThreshold = 1
  Levels <- TwoLevels
  MaxPosts = 7
INVARIANTS RequestsTypeOK BundledOnce DistinctRequests NoOversizedTransaction
PROPERTIES NoRequestLost
\* The bounds let the system stop.
CHECK_DEADLOCK FALSE
