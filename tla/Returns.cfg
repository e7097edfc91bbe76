SPECIFICATION FairSpec
CONSTANTS
  Insn <- Insn1
  Thread <- OneThread
  Succ <- Succ1Loop
  Spawner <- Nowhere
  Blocker <- Nowhere
  Start = 10
  WorkerEntry = 10
  Line <- Line1
  CallRet <- CallRet1
  Entry = 20
  BreakAt <- BreakAtCallee1
  Dup = FALSE
  UpTargets <- Nowhere
  JumpTargets <- Nowhere
  Locks = FALSE
  Signals = TRUE
  Watching = FALSE
  ExecFails = FALSE
  BreakFails = FALSE
  MaxBps = 1
  MaxIter = 4
PROPERTIES
  SiReturns
  StepReturns
  RunComesBack
