CONSTANTS
  e1 = e1
  e2 = e2
  n1 = n1
  ns1 = ns1
  ns2 = ns2
  Absent = Absent
  BadStatus = BadStatus
  None = None
  Externals = {e1, e2}
  WellFormed = {e1, e2}
  Names = {n1}
  Namespaces = {ns1, ns2}
SPECIFICATION Spec
INVARIANT TypeOK
INVARIANT ReturnsCurrentOrDeclared
PROPERTY ResolvesOnceReady
