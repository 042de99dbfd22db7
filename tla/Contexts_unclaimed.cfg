SPECIFICATION Spec
CONSTANTS
  N = 2
  Kinds = {"pool"}
  Capable <- MCCapable
  Lives = 2
  Careful = {"demote"}
INVARIANT HostMemoryInUseIsMapped
