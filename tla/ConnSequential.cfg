SPECIFICATION Spec
CONSTANTS
  m1 = m1
  m2 = m2
  openai = openai
  Procs = {p1, p2}
  Models = {m1, m2}
  Protocols = {openai}
  Serves <- AllServed
  OwnKeys = {}
  NoBinding = NoBinding
  Original = Original
  NoTask = NoTask
  Free = Free
  Overlap = {"renew"}
  Situations = {"damage", "departure", "withdrawal"}
  MaxChain = 2
  MaxCalls = 3
  MaxCreds = 5
  MaxMishaps = 1
  MaxLeaving = 1
INVARIANTS BoundIsUsable  CredentialCoversConfig BindingDescribesConfig ChainMatchesLog
SYMMETRY SymBoth
CHECK_DEADLOCK FALSE
