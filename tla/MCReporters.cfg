CONSTANTS
  c1 = c1
  c2 = c2
  c3 = c3
  fmt = fmt
  lint = lint
  vet = vet
  x = x
  y = y
  nl = nl
  NL = nl
  NoCheck = NoCheck
  Check <- ThreeChecks
  Name <- Names
  Char <- Characters
  MaxFindings = 3
  Capacity = 1
  MaxBatch = 2
  MaxSummary = 2
  Truncated = Truncated
  TagsTruncated = TagsTruncated
  Setups <- AllSetups
SPECIFICATION FairSpec
INVARIANTS TypeOK UploadedRight EveryReporterTold RenderingRight
PROPERTIES NetworkDoesNotBlock CloseEnds
