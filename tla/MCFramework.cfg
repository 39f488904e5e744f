CONSTANTS
  f1 = f1
  f2 = f2
  None = None
  Files = {f1, f2}
  ReqFiles = {f1, f2}
  Plans <- MCPlans
  MaxRetries = 3
  FaultyOps = {"ai", "fs", "gen", "git"}
  MaxFaults = 3
SPECIFICATION Spec
INVARIANT TypeOK
INVARIANT HistoryAccounting
INVARIANT PublishedTreeValidated
INVARIANT ModifiedFilesWritten
PROPERTY ImplementsWorkflow
