CONSTANTS
  m1 = m1
  m2 = m2
  m3 = m3
  lib = lib
  util = util
  gone = gone
  c1 = c1
  c2 = c2
  c3 = c3
  NoThread = NoThread
  NoFile = NoFile
  File <- TreeFiles
  Check <- TreeChecks
  Entry <- TwoEntries
  Programs <- CrossTree
  Missing <- Gone
  MaxConcurrency = 3
SPECIFICATION Spec
INVARIANTS NoWaitCycle
\* The run looks for a deadlock itself.
CHECK_DEADLOCK FALSE
