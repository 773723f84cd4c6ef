SPECIFICATION Spec
CONSTANTS
  NoCursor = NoCursor
  Savers = {s1, s2}
  Keys <- MCKeys
  Batches <- MCBatches
  Limits = {1, 2, 3}
  MaxLimit = 3
SYMMETRY SaverSymmetry
INVARIANTS
  TypeOK
  PagesDescend
  WalkIsComplete
  LegsComeAlong
  CursorLeadsOn
