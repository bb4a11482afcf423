----------------------------- MODULE MCCheckRun -----------------------------
(***************************************************************************)
(* Instances of CheckRun for TLC.                                          *)
(***************************************************************************)
EXTENDS CheckRun, TLC

CONSTANTS b1, b2, b3

\* More checks than slots, and one of them with a subprocess.
ManyChecks == [maxProcs |-> <<1, 0, 0>>, maxConcurrency |-> 2, levels |-> {},
               interruptible |-> FALSE]

\* A subprocess in each of two checks that run at the same time.
SideBySide == [ManyChecks EXCEPT !.maxProcs = <<1, 1>>]

\* More subprocesses than tokens, and an interruption.
ManyProcs == [maxProcs |-> <<1, 2>>, maxConcurrency |-> 1, levels |-> {},
              interruptible |-> TRUE]

\* Findings of every level from concurrent checks.
ManyLevels == [maxProcs |-> <<0, 0>>, maxConcurrency |-> 2, levels |-> {Notice, Warning, Error},
               interruptible |-> TRUE]

\* A check that emits findings and starts a process.
Mixed == [maxProcs |-> <<1, 0>>, maxConcurrency |-> 1, levels |-> {Warning, Error},
          interruptible |-> TRUE]

\* One check and one subprocess.
OneProc == [maxProcs |-> <<1>>, maxConcurrency |-> 3, levels |-> {}, interruptible |-> FALSE]

Contention == {ManyChecks, SideBySide, ManyProcs, ManyLevels, Mixed}
NoContention == {OneProc}
=============================================================================
