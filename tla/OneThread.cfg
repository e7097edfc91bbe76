SPECIFICATION Spec
CONSTANTS
  Insn <- Insn1
  Thread <- OneThread
  Succ <- Succ1
  Spawner <- Nowhere
  Blocker <- Nowhere
  Start = 10
  WorkerEntry = 10
  Line <- Line1
  CallRet <- CallRet1
  Entry = 20
  BreakAt <- BreakAt1
  Dup = FALSE
  UpTargets <- Nowhere
  JumpTargets <- Nowhere
  Locks = FALSE
  Signals = FALSE
  Watching = FALSE
  ExecFails = FALSE
  BreakFails = FALSE
  MaxBps = 2
  MaxIter = 5
INVARIANTS
  OwnedTraps
  ArmedWhileRunning
  NoDerail
PROPERTIES
  SiAdvances
  NextStaysOut
  StepsByLine
  WaitNeverFatal
  ImplementsService
