CONSTANTS
  Jobs <- MCJobs
  NFiles = 2
  MaxReads = 1
  MaxChanges = 1
SPECIFICATION Spec
INVARIANTS
  ServesRestored
  NoCpuBackupIsLeft
  ExitIsEarned
  RetainedIsMeasured
  CompilerAgrees
