CONSTANTS
  m1 = m1
  m2 = m2
  m3 = m3
  lib = lib
  util = util
  gone = gone
  c1 = c1
  c2 = c2
  c3 = c3
  NoThread = NoThread
  NoFile = NoFile
  File <- TreeFiles
  Check <- TreeChecks
  Entry <- ThreeEntries
  Programs <- TreesAndGraphs
  Missing <- Gone
  MaxConcurrency = 2
SPECIFICATION FairSpec
INVARIANTS TypeOK NoUnfinishedRead LoadedClosure RegisteredOnce AcyclicNoWaitCycle CycleVerdict
PROPERTIES KeepsPromise OutcomeFinal FrozenAfterParse Termination
\* Two shac.star that load each other do stop.
CHECK_DEADLOCK FALSE
