CONSTANTS
  f1 = f1
  f2 = f2
  None = None
  Files = {f1, f2}
  ReqFiles = {f1, f2}
  Plans <- MCPlansEditFirst
  MaxRetries = 3
  FaultyOps = {"gen"}
  MaxFaults = 1
SPECIFICATION Spec
PROPERTY FaultTolerated
