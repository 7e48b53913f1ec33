SPECIFICATION FairSpec
CONSTANTS
  Job = {j1, j2}
  None = None
INVARIANTS HooksComeFirst OneFlight
PROPERTIES LoginEnds
