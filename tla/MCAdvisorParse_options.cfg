CONSTANTS
  f1 = f1
  NaN = NaN
  None = None
  StepVals = {"", "GenerateKRM", "ModifyFile"}
  Files = {f1}
  Nums = {2}
  Texts = {"x"}
  ChangeTypes = {"KRM"}
  Descs = {"d"}
  ModLines <- MCModLines
  MaxLines = 4
SPECIFICATION Spec
INVARIANT GeneratorOptionsParsed
