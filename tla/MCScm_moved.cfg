SPECIFICATION Spec
CONSTANTS
  None = None
  c1 = c1
  c2 = c2
  c3 = c3
  p = p
  q = q
  Check = {c1, c2, c3}
  Path = {p, q}
  Setups <- OneList
INVARIANTS
  NoDeletedListed
\* A check stops at an error or when it has made its calls.
CHECK_DEADLOCK FALSE
