CONSTANTS
  a = a
  b = b
  c = c
  d = d
  v1 = v1
  v2 = v2
  Head0 = Head0
  Latest = Latest
  Root = Root
  Pkg <- MCPkg
  Version <- MCVersion
  Projects <- MCProjects
  Registry <- MCRegistry
  Manifest <- MCManifest
SPECIFICATION Spec
INVARIANTS
  TypeOK
  DependenciesInstalled
  NoReentry
  CheckoutListed
PROPERTIES
  Terminates
