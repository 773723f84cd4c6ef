SPECIFICATION FairSpec
CONSTANTS
  q1 = q1  q2 = q2  q3 = q3  q4 = q4
  s1 = s1  s2 = s2
  ann = ann  bob = bob
  csv = csv
  acct = acct  padded = padded  blank = blank
  r1 = r1  r2 = r2
  NoWriter = NoWriter
  Requests <- MCRequests
  Writers = {q1, q2, q3, q4, s1, s2}
  Keys <- MCKeys
  Batch <- MCBatch
  Command <- MCCommand
  Trim <- MCTrim
  Unusable = {blank}
  KnownSources = {csv}
CHECK_DEADLOCK FALSE
INVARIANTS
  TypeOK
  OneWallet
  ReadBackFinds
PROPERTIES
  InsertsAreAtomic
  EveryInsertEnds
