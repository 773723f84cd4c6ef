SPECIFICATION Spec
CONSTANTS
  MaxAttempts = 1
  k1 = k1  k2 = k2
  b1 = b1  b2 = b2  bad = bad  foreign = foreign  orphan = orphan
  w1 = w1  w2 = w2
  c1 = c1  c2 = c2  c3 = c3
  r1 = r1  r2 = r2  r3 = r3
  l1 = l1  l2 = l2
  NoKey = NoKey
  NoBody = NoBody
  NoWorker = NoWorker
  NoMessage = NoMessage
  Keys = {k1, k2}
  Bodies = {b1, b2, bad}
  Clients = {c1, c2, c3}
  Workers = {w1, w2}
  Rows = {r1, r2, r3}
  LockKeys = {l1, l2}
  LockOf <- OneLock
  KeyOf <- OwnKeys
  BodyOf <- RivalBodies
  Budget <- RivalBudget
  Chunks <- MCChunks
  Registered <- MCRegistered
  Owned <- MCOwned
  ReadError <- MCReadError
CHECK_DEADLOCK FALSE
SYMMETRY WorkerSymmetry
INVARIANTS
  CompletedMeansStored
  CountsDescribePayload
  StoredWasRequested
  AcceptedIsOwnImport
  NothingIsLost
PROPERTIES
  RowsAreFinal
  ExactlyOnceEffect
