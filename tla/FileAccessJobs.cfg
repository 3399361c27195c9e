CONSTANTS
  r1 = r1
  r2 = r2
  j1 = j1
  j2 = j2
  Nobody = Nobody
  Requests <- MCRequests
  Jobs <- MCJobs
  Actors <- MCActors
  Paths <- MCPaths
  Trees <- MCTrees
  Contents <- MCContents
  Dotted <- MCDotted
  Cwd <- MCCwd
  Asks <- MCAsks
  NoWorkDir = {"bare"}
  NeedAccount = {"strict"}
  Method <- MCMethod
  MaxOps = 6
  AtMost = 1
SPECIFICATION Spec
INVARIANT CompletedIsDone
CHECK_DEADLOCK FALSE
