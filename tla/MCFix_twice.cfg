SPECIFICATION Spec
CONSTANTS
  c1 = c1
  c2 = c2
  k1 = k1
  k2 = k2
  f1 = f1
  f2 = f2
  NL = NL
  x = x
  y = y
  z = z
  NoKey = NoKey
  Char = {x, y, z, NL}
  Check = {c1, c2}
  Formatter = {c2}
  Key = {k1, k2}
  File = {f1, f2}
  FileOf <- OneFile
  Rank <- PathOrder
  MaxReplacements = 2
  Setups <- SharedFile
INVARIANTS
  NoOverlapFixed
