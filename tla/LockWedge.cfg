SPECIFICATION Spec
CONSTANTS
  Insn <- Insn2
  Thread <- TwoThreads
  Succ <- Succ2
  Spawner <- Creates2
  Blocker <- Joins2
  Start = 10
  WorkerEntry = 70
  Line <- Line2
  CallRet <- CallRet2
  Entry = 20
  BreakAt <- BreakAt2
  Dup = FALSE
  UpTargets <- Nowhere
  JumpTargets <- Nowhere
  Locks = TRUE
  Signals = FALSE
  Watching = FALSE
  ExecFails = FALSE
  BreakFails = FALSE
  MaxBps = 2
  MaxIter = 3
INVARIANTS
  StepNeverWedged
