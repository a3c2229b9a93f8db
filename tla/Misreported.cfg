CONSTANTS
  Key = {k1}
  rk1 = rk1
  rk2 = rk2
  n1 = n1
  n2 = n2
  ReplayKey = {rk1}
  Nonce = {n1}
  NonceOf <- SpelledAlone
  Answer = {1}
  Nothing = Nothing
  Request = {r1, r2}
  Native = {}
  Mainnet = {rk1}
  NoSnapshot = NoSnapshot
  MaxRows = 1
  PruneEvery = 2
  MaxFault = 0
  Token = {}
  CreditToken = {}
  Session = {}
  Call = {}
  Nobody = Nobody
  Unset = Unset
  MaxRestart = 0
SPECIFICATION ServerSpec
INVARIANTS UnknownIsNotInvalid
