SPECIFICATION FairSpec
CONSTANTS
  Procs = {p1, p2, p3}
  Free = Free
  Deadline = {"look"}
  Windows = {}
  MaxCrashes = 1
  MaxFaults = 1
  Keys = {session, runtime}
  Secrets = {s1}
  None = None
  NoRequest = NoRequest
  NoCopy = NoCopy
  Done = Done
INVARIANT MutualExclusion
PROPERTIES ImplementsStore NobodyWaitsForTheDead
CHECK_DEADLOCK FALSE
