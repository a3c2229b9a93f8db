CONSTANTS
  Key = {k1, k2}
  rk1 = rk1
  rk2 = rk2
  n1 = n1
  n2 = n2
  ReplayKey = {rk1, rk2}
  Nonce = {n1, n2}
  NonceOf <- SpelledAlone
  Answer = {1}
  Nothing = Nothing
  Request = {r1, r2}
  Native = {r2}
  Mainnet = {rk1}
  NoSnapshot = NoSnapshot
  MaxRows = 1
  PruneEvery = 2
  MaxFault = 2
  Token = {t1, t2}
  CreditToken = {t1, t2}
  Session = {s1, s2}
  Call = {c1}
  Nobody = Nobody
  Unset = Unset
  MaxRestart = 1
SPECIFICATION ServerSpec
INVARIANTS TypeOK RevenueIsExact RowsTellTruth SessionsKeepPrincipals
