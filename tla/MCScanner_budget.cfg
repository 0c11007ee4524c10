SPECIFICATION Spec
CONSTANTS
  Root = {"r1", "r2"}
  Roots <- RootsTwo
  Dir = {"a", "b", "n"}
  Shell <- ShellTwo
  Package = "package.json"
  Named <- NamedTwo
  Hop = {"hop1", "hop2"}
  Env <- EnvOne
  Compose <- ComposeTwo
  Readme = "README.md"
  Port = {1, 2}
  None = None
  Trees <- TreesSmall
  MaxEntries = 3
CHECK_DEADLOCK FALSE
INVARIANTS AbsenceMeansGone FoundOnce PortsTrue
