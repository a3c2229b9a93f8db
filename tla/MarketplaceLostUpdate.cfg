CONSTANTS
  Proc = {p1, p2}
  Key = {k1}
  Input = {in1}
  ReplayKey = {rk1}
  Approval = {a1, a2}
  NoProc = NoProc
  NoRequest = NoRequest
  NoCall = NoCall
  NoApproval = NoApproval
  GuardianMayDie = TRUE
  MaxTerms = 3
  MaxFault = 1
SPECIFICATION Spec
PROPERTIES NothingTakenBack
