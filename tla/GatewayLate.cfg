SPECIFICATION GatewaySpec
CONSTANTS
  m1 = m1
  m2 = m2
  openai = openai
  Procs = {main, gw}
  Main = main
  Renewer = gw
  Requests = {r1}
  LateRenewal = TRUE
  MaxDue = 1
  Models = {m1, m2}
  Protocols = {openai}
  Serves <- AllServed
  OwnKeys = {}
  NoBinding = NoBinding
  Original = Original
  NoTask = NoTask
  Free = Free
  Overlap = {"renew", "restore"}
  Situations = {}
  MaxChain = 16
  MaxCalls = 1
  MaxCreds = 6
  MaxMishaps = 0
  MaxLeaving = 0
INVARIANTS RunLeavesNoTrace
CHECK_DEADLOCK FALSE
