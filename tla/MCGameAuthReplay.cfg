SPECIFICATION Spec
CONSTANTS
  Clients = {g1}
  Requests = {r1, r2}
  Day = 2
  Minute = 1
  MaxTime = 2
  MaxSessions = 2
  MaxCodes = 2
SYMMETRY CallSymmetry
INVARIANT
  ReplayRevokes
