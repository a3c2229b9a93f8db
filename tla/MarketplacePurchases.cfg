CONSTANTS
  Proc = {p1, p2}
  Key = {k1, k2}
  Input = {in1}
  ReplayKey = {rk1}
  Approval = {a1, a2}
  NoProc = NoProc
  NoRequest = NoRequest
  NoCall = NoCall
  NoApproval = NoApproval
  GuardianMayDie = FALSE
  MaxTerms = 3
  MaxFault = 1
SPECIFICATION Spec
SYMMETRY PurchaseSymmetry
INVARIANTS TypeOK SettledOncePerReplayKey ChargeIsVisible OutcomesAgree SoldAsApproved DownloadsWithinRights RepliesAgree
PROPERTIES NothingTakenBack
