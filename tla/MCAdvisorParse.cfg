CONSTANTS
  f1 = f1
  NaN = NaN
  None = None
  StepVals = {"", "GenerateKRM", "ModifyFile"}
  Files = {f1}
  Nums = {2}
  Texts = {"x"}
  ChangeTypes = {"KRM"}
  Descs = {"d"}
  ModLines <- MCModLines
  MaxLines = 5
SPECIFICATION Spec
INVARIANT TypeOK
INVARIANT PlanMatchesBlocks
INVARIANT ChangesMatchBlocks
