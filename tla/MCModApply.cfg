CONSTANTS
  Contents <- MCContents
  Texts <- MCTexts
  LineNums = {0, 1, 2, 3, 4}
  MaxMods = 2
  Panic = Panic
  None = None
SPECIFICATION Spec
INVARIANT TypeOK
INVARIANT EmptyModsIdentity
INVARIANT AscendingMatchesOriginal
INVARIANT SliceAliasingInvisible
