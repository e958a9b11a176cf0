\* try { use "mod" } except e { ... }, where mod throws.
SPECIFICATION Spec
CONSTANTS
  Programs <- MCFailingModule
  Heights <- MCHeights
  Scripts = {"main", "mod", "lib"}
  Main = "main"
  FramesMax = 5
  MaxRuns = 1
  NameReads = {TRUE, FALSE}
INVARIANT NeverFaults
CHECK_DEADLOCK FALSE
