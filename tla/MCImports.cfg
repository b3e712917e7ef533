\* Every program of three files; circular imports are followed three files deep.
SPECIFICATION FairSpec
CONSTANTS
  Package = {"app", "dep"}
  Path = {"main", "a", "lib"}
  Name = {"a", "lib", "m"}
  FnName = {"f", "g", "h", "j", "k", "s", "u"}
  Project = "app"
  MainPath = "main"
  Programs <- MCPrograms
  Global = {"std"}
  MaxDepth = 6
INVARIANTS ContextRestored FunctionContext AddedOnce ImportsFirst
PROPERTY Terminates
CHECK_DEADLOCK FALSE
