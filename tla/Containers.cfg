\* A pool of three blocks of two words for two tasks; two queues over four nodes; a list
\* of four nodes; two transfers.
SPECIFICATION ContainersSpec
CONSTANTS
  PoolSz = 3
  ItemWords = 2
  Clients = {t1, t2}
  NULL = NULL
  Queues = {q1, q2}
  Nodes = {n1, n2, n3, n4}
  Null = Null
  Ids = {0, 1, 2, 3, 5}
  Elements = {e1, e2, e3, e4}
  Width = 3
  Totals = {3, 5}
  Sizes = {1, 2}
  SizeMax = 5
  MaxTransfers = 2
  Late = FALSE
INVARIANTS
  NullMeansSuffixInUse
  MailInOnePlace
  PutNeverFails
  TailIsLast
  FindFinds
  HandedIsWhole
  OkMeansHanded
PROPERTIES
  ImplementsFifo
CHECK_DEADLOCK FALSE
