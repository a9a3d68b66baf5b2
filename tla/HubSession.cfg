SPECIFICATION Spec
CONSTANTS
  p1 = p1
  p2 = p2
  p3 = p3
  a1 = a1
  a2 = a2
  b1 = b1
  s1 = s1
  Procs = {p1, p2, p3}
  Calls = {a1, a2, b1, s1}
  ProcOf <- Slots
  Signers = {s1}
  None = None
  Intervals = {1}
  SlowDown = 1
  BackoffCap = 3
  DeviceLife = 4
  MaxFamilies = 2
  MaxSerial = 3
  MaxStarts = 5
  MaxMishaps = 1
INVARIANTS TypeOK SessionIsUsable NothingForgotten LogoutStands PollsKeepTheirDistance
PROPERTIES CallsEnd
CHECK_DEADLOCK FALSE
