SPECIFICATION PatientSpec
CONSTANTS
  Slots = {s1, s2, s3}
  PoolMax = 2
  Statements = 2
INVARIANTS
  TypeOK
  ConnectionsComeBack
PROPERTIES
  WedgesBreak
  EveryMessageSettles
  DrainEnds
CHECK_DEADLOCK FALSE
