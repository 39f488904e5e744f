CONSTANTS
  f1 = f1
  f2 = f2
  None = None
  Files = {f1, f2}
  ReqFiles = {f1, f2}
  Plans <- MCPlansGenerated
  MaxRetries = 3
  FaultyOps = {"git"}
  MaxFaults = 1
SPECIFICATION Spec
PROPERTY FaultTolerated
