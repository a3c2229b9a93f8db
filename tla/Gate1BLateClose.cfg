SPECIFICATION Spec
CONSTANTS
  p1 = p1  p2 = p2  k1 = k1  k2 = k2
  pay1 = pay1  pay2 = pay2  pay3 = pay3
  rk1 = rk1  rk2 = rk2  n1 = n1  in1 = in1
  NoRequest = NoRequest  NoCall = NoCall
  Proc = {p1, p2}
  WaitMayExpire = FALSE
  GuardianMayDie = TRUE
  LateClose = TRUE
  Key = {k1}
  Input = {in1}
  Payment = {pay1, pay2}
  ReplayKey = {rk1}
  Nonce = {n1}
  MainnetPayment = {pay1, pay2}
  LegacyKey = {}
  MaxUuid = 8
  MaxExec = 2
  MaxGen = 7
  MaxCrash = 1
  ReplayKeyOf <- OneSpelling
  NonceOf <- OneAuthorization
  RecoverFrom = {"settlement_unknown", "unresolved"}
SYMMETRY PaymentSymmetry
INVARIANTS
  FulfilmentAllOrNothing
PROPERTIES
  UnpaidOnlyByRecovery
