SPECIFICATION Spec
CONSTANTS
  i1 = i1
  i2 = i2
  i3 = i3
  e1 = e1
  in = in
  out = out
  s1 = s1
  s2 = s2
  NoId = NoId
  NoImport = NoImport
  Imports = {i1, i2, i3}
  Attempts = {a1, a2}
  Events = {e1}
  Legs = {in, out}
  SourceIds = {s1, s2}
  Payload <- MCPayload
  BatchSizes = {1, 3}
SYMMETRY AttemptSymmetry
INVARIANTS
  TypeOK
  ChunkingIsInvisible
  GenuineDuplicatesSurvive
  OrdinalsHaveNoGaps
PROPERTY ReexportAddsNothing
