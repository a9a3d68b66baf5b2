SPECIFICATION GatewaySpec
CONSTANTS
  m1 = m1
  m2 = m2
  openai = openai
  Procs = {main, gw, p2}
  Main = main
  Renewer = gw
  Requests = {r1, r2}
  LateRenewal = FALSE
  MaxDue = 2
  Models = {m1, m2}
  Protocols = {openai}
  Serves <- AllServed
  OwnKeys = {}
  NoBinding = NoBinding
  Original = Original
  NoTask = NoTask
  Free = Free
  Overlap = {"renew"}
  Situations = {}
  MaxChain = 16
  MaxCalls = 2
  MaxCreds = 6
  MaxMishaps = 1
  MaxLeaving = 0
INVARIANTS GatewayTypeOK RunLeavesNoTrace 
PROPERTIES SentOnUsable RequestsGoOut UndoneAfterRuns
CHECK_DEADLOCK FALSE
