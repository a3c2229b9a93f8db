SPECIFICATION Spec
CONSTANTS
  p1 = p1  p2 = p2  k1 = k1  k2 = k2
  pay1 = pay1  pay2 = pay2  pay3 = pay3
  rk1 = rk1  rk2 = rk2  n1 = n1  in1 = in1
  NoRequest = NoRequest  NoCall = NoCall
  Proc = {p1, p2}
  WaitMayExpire = TRUE
  GuardianMayDie = FALSE
  LateClose = FALSE
  Key = {k1, k2}
  Input = {in1}
  Payment = {pay1, pay2, pay3}
  ReplayKey = {rk1, rk2}
  Nonce = {n1}
  MainnetPayment = {pay1, pay2, pay3}
  LegacyKey = {k1, k2}
  MaxUuid = 5
  MaxExec = 2
  MaxGen = 7
  MaxCrash = 1
  ReplayKeyOf <- TwoSpellings
  NonceOf <- OneAuthorization
  RecoverFrom = {}
SYMMETRY PaymentSymmetry
INVARIANTS
  TypeOK
  OnePurchasePerReplayKey
  JournalBeforeSettlement
  SettledOncePerReplayKey
PROPERTIES
  LedgerSpec
  PastIsKept
