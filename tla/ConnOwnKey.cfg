SPECIFICATION Spec
CONSTANTS
  m1 = m1
  m2 = m2
  openai = openai
  Procs = {p1}
  Models = {m1, m2}
  Protocols = {openai}
  Serves <- AllServed
  OwnKeys = {k1}
  NoBinding = NoBinding
  Original = Original
  NoTask = NoTask
  Free = Free
  Overlap = {}
  Situations = {}
  MaxChain = 16
  MaxCalls = 2
  MaxCreds = 3
  MaxMishaps = 1
  MaxLeaving = 0
PROPERTIES OnlyIssuedRevoked
SYMMETRY SymModels
CHECK_DEADLOCK FALSE
