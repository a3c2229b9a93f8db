SPECIFICATION FairSpec
CONSTANTS
  p1 = p1  p2 = p2  k1 = k1  k2 = k2
  pay1 = pay1  pay2 = pay2  pay3 = pay3
  rk1 = rk1  rk2 = rk2  n1 = n1  in1 = in1
  NoRequest = NoRequest  NoCall = NoCall
  Proc = {p1, p2}
  WaitMayExpire = FALSE
  GuardianMayDie = FALSE
  LateClose = FALSE
  Key = {k1}
  Input = {in1}
  Payment = {pay1}
  ReplayKey = {rk1}
  Nonce = {n1}
  MainnetPayment = {pay1}
  LegacyKey = {k1}
  MaxUuid = 6
  MaxExec = 3
  MaxGen = 7
  MaxCrash = 2
  ReplayKeyOf <- OneSpelling
  NonceOf <- OneAuthorization
  RecoverFrom = {"executing", "execution_unknown"}
INVARIANTS
  FulfilmentAllOrNothing
  ExecutedOnlyWhenPaid
  FulfilledIsReal
  RepliesAgree
PROPERTIES OperationsEnd MoneyTakenIsAnswered
  NoBlindRepeat
